---------------------------- MODULE Spec2Model ----------------------------
(***************************************************************************)
(* Deja View: a model of the collectors, the event store, the inference   *)
(* engine, the activity graph and the daemon, one specification per       *)
(* component.                                                             *)
(*                                                                         *)
(*   SpecTerminal   collectors/terminal.py   TerminalCollector            *)
(*   SpecBrowser    collectors/browser.py    BrowserCollector             *)
(*   SpecStore      storage/database.py      EventDatabase                *)
(*   SpecInference  analysis/inference.py    InferenceEngine              *)
(*   SpecGraph      analysis/graph.py        ActivityGraph                *)
(*   SpecCollector  collectors/base.py       BaseCollector, called direct *)
(*   SpecDaemon     daemon.py                Daemon and its tasks         *)
(*   FairSpecDaemon daemon.py                Daemon under a fair loop     *)
(*   SpecStoreColumns storage/database.py    a row's columns, iter_events *)
(*   SpecGraphCalls analysis/graph.py        single calls, related nodes  *)
(*   SpecGit        collectors/git.py        GitCollector                 *)
(*   SpecProcess    collectors/process.py    ProcessCollector             *)
(*   SpecConfig     config.py                Config and its intervals     *)
(*   SpecGraphEvents analysis/graph.py       the events a graph was given *)
(*   FairSpecBacklog collectors/browser.py   a poll with rows in arrears  *)
(*   SpecRestart    daemon.py                start(), run(), stop() again *)
(*                                                                         *)
(* Every specification owns a group of variables and leaves the other     *)
(* groups at their initial value; the daemon and its collectors also      *)
(* write the store and the graph.                                         *)
(***************************************************************************)
EXTENDS Integers, Sequences, FiniteSets, TLC

(***************************************************************************)
(* State                                                                  *)
(***************************************************************************)
VARIABLES
    \* terminal collector
    shell,           \* "bash" | "zsh": the key of history_paths the file is under
    history,         \* the history file: a sequence of lines
    histEntries,     \* the complete entries the file consists of (kept with history)
    file_positions,  \* TerminalCollector._file_positions: path -> offset
    seen_commands,   \* TerminalCollector._seen_commands: set of dedup keys
    termRunning,     \* BaseCollector._running of the terminal collector
    clock,           \* the wall clock datetime.now() reads
    termSince,       \* what happened to the file since the last start or poll
    termPoll,        \* what the poll that has just run saw and emitted
    \* browser collector
    places,          \* the browsers' history databases: the visit rows
    last_visit,      \* _last_chrome_visit, _last_firefox_visit: browser -> cursor
    seen_visits,     \* BrowserCollector._seen_visits: set of visit keys
    browserRunning,  \* BaseCollector._running of the browser collector
    wall,            \* the wall clock of the browser collector and the browsers
    visitEvents,     \* per visit key, the browser.visit events emitted (up to 2)
    returnedKeys,    \* the visit keys a history read has returned
    laterPolls,      \* polls run since the first event (up to 2)
    \* event store
    events_table,    \* the rows of table events, in insertion order
    conn,            \* EventDatabase._conn is not None
    dbCall,          \* the last call of the store API and what it returned
    dbPrev,          \* the call before it
    dbInserted,      \* id -> the event insert_event was given and has stored
    \* inference engine
    infEvents,       \* the event list given to create_windows
    infPermuted,     \* the same events in another order, given to a second run
    infGap,          \* gap_threshold_minutes
    infWindows,      \* the windows of the first run
    infWindowsPermuted,  \* the windows of the second run
    infStage,        \* "input" | "windowed" | "analyzed" | "detected" | "stalls"
    infSwitches,     \* what detect_context_switches returned for the first run
    infStalls,       \* the windows given to find_stalled_tasks and what it returned
    \* activity graph
    graph,           \* ActivityGraph._graph: [nodes: id -> attributes, edges: {u, v} -> weight]
    graph_file,      \* the file at graph_path: Absent or the pickled graph
    graphCalls,      \* add_event and add_window calls made so far
    graphOp,         \* the last call of the graph API and what it returned
    savedGraph,      \* the graph as it was at the last save()
    graphPairs,      \* {u, v} -> the add_window calls whose window had both u and v
    \* collectors under the daemon
    collectors,      \* per collector: _running, the state of _task, what start() holds
    col_queue,       \* per collector: the items waiting for its next poll, oldest first
    col_made,        \* per collector: how many items its source has produced
    sink,            \* the items handed to the event callback, in order
    col_waiting,     \* the collector whose task a direct caller of stop_task awaits
    col_op,          \* the last direct call of stop() or stop_task() and its outcome
    \* daemon
    event_count,     \* Daemon._event_count
    d_running,       \* Daemon._running
    pid_file,        \* the PID file exists
    data_dir,        \* the data directory exists
    run_pc,          \* where Daemon.run() is
    stops,           \* per caller of Daemon.stop(): where it is and what it has done
    periodic,        \* the tasks of _periodic_save and _status_reporter
    \* git collector
    worktrees,       \* the repositories under the watch paths: path -> None or <<worktree>>
    repo_states,     \* GitCollector._repo_states: path -> None or <<state>>
    known_repos,     \* GitCollector._known_repos
    gitRunning,      \* BaseCollector._running of the git collector
    gitPoll,         \* what the pass of collect() that has just run saw and yielded
    \* process collector
    process_table,   \* the process table: pid -> None or <<process>>
    active_processes,  \* ProcessCollector._active_processes: pid -> None or <<info>>
    seen_pids,       \* ProcessCollector._seen_pids
    procRunning,     \* BaseCollector._running of the process collector
    procPoll,        \* what the pass of collect() that has just run scanned and yielded
    procOpen,        \* the pids with a process.start and no process.end after it
    \* configuration
    environ,         \* os.environ: the DEJA_*_POLL_INTERVAL variables, None or <<text>>
    config,          \* config._config: None or <<Config>>
    poller,          \* the collector constructed last: its kind, argument and poll_interval
    confOp,          \* the last call on the configuration and its outcome
    \* activity graph: the events added
    graphAdded,      \* the events add_event has been called with, in call order
    \* browser collector under a backlog
    visitsEmitted,   \* the keys of the rows a browser.visit event was yielded for
    pollPhase,       \* where the task of collect() is: "none" | "ready" | "sleep"
    seeded,          \* the cursors start() seeded: browser -> None or <<native time>>
    \* daemon started again
    collector_list,  \* Daemon.collectors: the kinds of the collectors, in list order
    restartRunning,  \* Daemon._running
    restartTasks,    \* the positions of collector_list whose collector has a task
    restartStarts,   \* the calls of Daemon.start() so far
    restartObserved  \* None or <<[kind, events]>>: what the last observation yielded

termVars == <<shell, history, histEntries, file_positions, seen_commands,
              termRunning, clock, termSince, termPoll>>
browserVars == <<places, last_visit, seen_visits, browserRunning, wall,
                 visitEvents, returnedKeys, laterPolls>>
storeVars == <<events_table, conn, dbCall, dbPrev, dbInserted>>
infVars == <<infEvents, infPermuted, infGap, infWindows, infWindowsPermuted, infStage,
             infSwitches, infStalls>>
graphVars == <<graph, graph_file, graphCalls, graphOp, savedGraph, graphPairs>>
collVars == <<collectors, col_queue, col_made, sink, col_waiting, col_op>>
daemonVars == <<event_count, d_running, pid_file, data_dir, run_pc, stops, periodic>>
gitVars == <<worktrees, repo_states, known_repos, gitRunning, gitPoll>>
procVars == <<process_table, active_processes, seen_pids, procRunning, procPoll, procOpen>>
confVars == <<environ, config, poller, confOp>>
histVars == <<graphAdded>>
backlogVars == <<visitsEmitted, pollPhase, seeded>>
restartVars == <<collector_list, restartRunning, restartTasks, restartStarts,
                 restartObserved>>
vars == <<termVars, browserVars, storeVars, infVars, graphVars, collVars, daemonVars,
          gitVars, procVars, confVars, histVars, backlogVars, restartVars>>

(***************************************************************************)
(* Generic helpers                                                        *)
(***************************************************************************)
Absent == <<"absent">>

\* dict.get(key, default) on a function whose domain is the set of keys
Get(d, k, default) == IF k \in DOMAIN d THEN d[k] ELSE default

SeqToSet(s) == {s[i] : i \in 1..Len(s)}

\* the concatenation of a sequence of sequences
RECURSIVE Flatten(_)
Flatten(ss) == IF ss = <<>> THEN <<>> ELSE Head(ss) \o Flatten(Tail(ss))

(***************************************************************************)
(* TERMINAL COLLECTOR  (collectors/terminal.py)                           *)
(*                                                                         *)
(* One tracked history file.  The file is a sequence of lines, every line *)
(* (with its newline) one unit of size, so byte offsets count lines.      *)
(* A command is a tuple of whitespace-separated tokens.                   *)
(***************************************************************************)
MaxLines == 3        \* lines in the history file
MaxClock == 2        \* datetime.now() stays below this many ticks

HistPath == "history_path"
NoTs == 0
ShellTs == {1, 2}

IGNORE_COMMANDS == {"ls", "cd", "pwd", "clear", "exit", "history",
                    "ll", "la", "l", ".", ".."}
SEEN_CAP == 10000
SEEN_EVICT == 5000

\* os.path.basename and str.lower on the tokens of the model
BaseName(tok) == IF tok = "/bin/ls" THEN "ls" ELSE tok
Lower(tok) == IF tok = "LS" THEN "ls" ELSE tok

ShouldIgnore(command) ==
    LET base_cmd == IF Len(command) > 0 THEN command[1] ELSE ""
    IN  Lower(BaseName(base_cmd)) \in IGNORE_COMMANDS

\* A complete history entry, and the lines it is written as by each shell.
\* bash: "#<ts>" on a line of its own, then the command; zsh: ": <ts>:0;cmd".
\* (an ignored command is written plain or under the first timestamp)
Entry == [ts : ShellTs \cup {NoTs}, cmd : {<<"make">>}]
         \cup [ts : {NoTs, 1}, cmd : {<<"/bin/ls", "-la">>}]

StampLine(t) == [k |-> "stamp", ts |-> t, cmd |-> <<"#", "stamp">>]
ExtLine(t, c) == [k |-> "ext", ts |-> t, cmd |-> c]
PlainLine(c) == [k |-> "plain", ts |-> NoTs, cmd |-> c]

EntryLines(sh, e) ==
    IF e.ts = NoTs THEN <<PlainLine(e.cmd)>>
    ELSE IF sh = "bash" THEN <<StampLine(e.ts), PlainLine(e.cmd)>>
    ELSE <<ExtLine(e.ts, e.cmd)>>

\* datetime values: a shell timestamp, or a reading of the wall clock
ShellTime(t) == <<"shell", t>>
NowTime(t) == <<"now", t>>

CmdInfo(c, t, sh) == [command |-> c, timestamp |-> t, shell |-> sh]

\* _parse_bash_history: i is the index of the line looked at, n the number of
\* datetime.now() readings so far, each later than the one before by adv ticks
RECURSIVE ParseBashFrom(_, _, _, _, _)
ParseBashFrom(lines, i, n, now, adv) ==
    IF i > Len(lines) THEN <<>>
    ELSE LET line == lines[i] IN
         IF line.k = "stamp" /\ i + 1 <= Len(lines)
         THEN LET cmd == lines[i + 1].cmd
              IN  (IF ~ShouldIgnore(cmd)
                   THEN <<CmdInfo(cmd, ShellTime(line.ts), "bash")>> ELSE <<>>)
                  \o ParseBashFrom(lines, i + 2, n, now, adv)
         ELSE IF line.k # "stamp" /\ ~ShouldIgnore(line.cmd)
         THEN <<CmdInfo(line.cmd, NowTime(now + adv * n), "bash")>>
              \o ParseBashFrom(lines, i + 1, n + 1, now, adv)
         ELSE ParseBashFrom(lines, i + 1, n, now, adv)

ParseBash(lines, now, adv) == ParseBashFrom(lines, 1, 0, now, adv)

\* _parse_zsh_history
RECURSIVE ParseZshFrom(_, _, _, _, _)
ParseZshFrom(lines, i, n, now, adv) ==
    IF i > Len(lines) THEN <<>>
    ELSE LET line == lines[i] IN
         IF line.k = "ext"
         THEN (IF ~ShouldIgnore(line.cmd)
               THEN <<CmdInfo(line.cmd, ShellTime(line.ts), "zsh")>> ELSE <<>>)
              \o ParseZshFrom(lines, i + 1, n, now, adv)
         ELSE IF ~ShouldIgnore(line.cmd)
         THEN <<CmdInfo(line.cmd, NowTime(now + adv * n), "zsh")>>
              \o ParseZshFrom(lines, i + 1, n + 1, now, adv)
         ELSE ParseZshFrom(lines, i + 1, n, now, adv)

ParseZsh(lines, now, adv) == ParseZshFrom(lines, 1, 0, now, adv)

\* _read_new_history: the commands read and the new _file_positions
ReadNewHistoryNoReset(sh, file, positions, now, adv) ==
    LET current_size == Len(file)
        last_pos == Get(positions, HistPath, 0)
    IN  IF current_size <= last_pos
        THEN [commands |-> <<>>, positions |-> positions]
        ELSE LET new_content == SubSeq(file, last_pos + 1, current_size)
             IN  [commands |-> IF sh = "bash" THEN ParseBash(new_content, now, adv)
                               ELSE ParseZsh(new_content, now, adv),
                  positions |-> [p \in {HistPath} |-> current_size]]

ReadNewHistory(sh, file, positions, now, adv) ==
    LET current_size == Len(file)
        stored == Get(positions, HistPath, 0)
        last_pos == IF current_size < stored THEN 0 ELSE stored
    IN  IF current_size = last_pos
        THEN [commands |-> <<>>, positions |-> positions]
        ELSE LET new_content == SubSeq(file, last_pos + 1, current_size)
             IN  [commands |-> IF sh = "bash" THEN ParseBash(new_content, now, adv)
                               ELSE ParseZsh(new_content, now, adv),
                  positions |-> [p \in {HistPath} |-> current_size]]

\* cmd_key: command[:100] keeps every command of the model whole
CmdKey(cmd_info) == <<cmd_info.timestamp, cmd_info.command>>

\* the cap on _seen_commands; which keys list(set)[:5000] takes is not defined
EvictSeen(seen) ==
    IF Cardinality(seen) > SEEN_CAP
    THEN seen \ (CHOOSE S \in SUBSET seen : Cardinality(S) = SEEN_EVICT)
    ELSE seen

\* _create_command_event: subject = command[:200]
CommandEvent(cmd_info) ==
    [event_type |-> "shell.command", source |-> "terminal",
     subject |-> cmd_info.command, timestamp |-> cmd_info.timestamp]

\* the for loop of collect() over new_commands: the events yielded, the seen set
RECURSIVE CollectLoop(_, _)
CollectLoop(new_commands, seen) ==
    IF new_commands = <<>> THEN [events |-> <<>>, seen |-> seen]
    ELSE LET cmd_info == Head(new_commands)
             cmd_key == CmdKey(cmd_info)
         IN  IF cmd_key \notin seen
             THEN LET rest == CollectLoop(Tail(new_commands),
                                          EvictSeen(seen \cup {cmd_key}))
                  IN  [events |-> <<CommandEvent(cmd_info)>> \o rest.events,
                       seen |-> rest.seen]
             ELSE CollectLoop(Tail(new_commands), seen)

\* the number of datetime.now() readings a parse made
RECURSIVE NowReadings(_)
NowReadings(commands) ==
    IF commands = <<>> THEN 0
    ELSE (IF Head(commands).timestamp[1] = "now" THEN 1 ELSE 0)
         + NowReadings(Tail(commands))

TermFrame ==
    UNCHANGED <<browserVars, storeVars, infVars, graphVars, collVars, daemonVars, gitVars, procVars,
               confVars, histVars, backlogVars, restartVars>>

NoPoll == [done |-> FALSE, shrunk |-> FALSE, grew |-> 0, held |-> 0, events |-> <<>>]
Baseline(b) == [base |-> b, what |-> "nothing", added |-> 0]

\* the commands of the entries of es that the ignore set lets through
RECURSIVE NonIgnored(_)
NonIgnored(es) ==
    IF es = <<>> THEN <<>>
    ELSE (IF ShouldIgnore(Head(es).cmd) THEN <<>> ELSE <<Head(es).cmd>>)
         \o NonIgnored(Tail(es))

TermInit ==
    /\ shell \in {"bash", "zsh"}
    /\ history = <<>>
    /\ histEntries = <<>>
    /\ file_positions = <<>>
    /\ seen_commands = {}
    /\ termRunning = FALSE
    /\ clock = 0
    /\ termSince = Baseline("none")
    /\ termPoll = NoPoll

\* the shell appends one complete entry to the history file
TermAppend(e) ==
    /\ TermFrame
    /\ Len(history) + Len(EntryLines(shell, e)) <= MaxLines
    /\ history' = history \o EntryLines(shell, e)
    /\ histEntries' = Append(histEntries, e)
    /\ termSince' = IF termSince.what = "cut" THEN termSince
                    ELSE [termSince EXCEPT !.what = "grew", !.added = @ + 1]
    /\ termPoll' = NoPoll
    /\ UNCHANGED <<shell, file_positions, seen_commands, termRunning, clock>>

\* history rotation: the shell drops the k oldest entries of the file
TermRotate(k) ==
    /\ TermFrame
    /\ k \in 1..Len(histEntries)
    /\ histEntries' = SubSeq(histEntries, k + 1, Len(histEntries))
    /\ history' = Flatten([i \in 1..(Len(histEntries) - k) |->
                              EntryLines(shell, histEntries[k + i])])
    /\ termSince' = [termSince EXCEPT !.what = "cut", !.added = 0]
    /\ termPoll' = NoPoll
    /\ UNCHANGED <<shell, file_positions, seen_commands, termRunning, clock>>

\* BaseCollector.run up to start(): positions are seeded with the file's size
TermStart ==
    /\ TermFrame
    /\ ~termRunning
    /\ termRunning' = TRUE
    /\ file_positions' = [p \in {HistPath} |-> Len(history)]
    /\ termSince' = Baseline("start")
    /\ termPoll' = NoPoll
    /\ UNCHANGED <<shell, history, histEntries, seen_commands, clock>>

\* stop(): both caches are cleared
TermStop ==
    /\ TermFrame
    /\ termRunning
    /\ termRunning' = FALSE
    /\ seen_commands' = {}
    /\ file_positions' = <<>>
    /\ termSince' = Baseline("none")
    /\ termPoll' = NoPoll
    /\ UNCHANGED <<shell, history, histEntries, clock>>

\* one turn of the while loop of collect(), the sleep included: the clock is
\* later at the next poll than at any reading of this one
TermCollect(adv) ==
    /\ TermFrame
    /\ termRunning
    /\ clock < MaxClock
    /\ LET read == ReadNewHistory(shell, history, file_positions, clock, adv)
           loop == CollectLoop(read.commands, seen_commands)
       IN  /\ file_positions' = read.positions
           /\ seen_commands' = loop.seen
           /\ clock' = clock + 1 + adv * NowReadings(read.commands)
           /\ termPoll' = [done |-> TRUE,
                           shrunk |-> Len(history) < Get(file_positions, HistPath, 0),
                           grew |-> IF termSince.base = "poll" /\ termSince.what = "grew"
                                    THEN termSince.added ELSE 0,
                           held |-> Cardinality({i \in 1..Len(read.commands) :
                                       CmdKey(read.commands[i]) \in seen_commands}),
                           events |-> loop.events]
    /\ termSince' = Baseline("poll")
    /\ UNCHANGED <<shell, history, histEntries, termRunning>>

TermNext ==
    \/ \E e \in Entry : TermAppend(e)
    \/ \E k \in 1..MaxLines : TermRotate(k)
    \/ TermStart
    \/ TermStop
    \/ \E adv \in {0, 1} : TermCollect(adv)

(***************************************************************************)
(* Claims on the terminal collector                                       *)
(***************************************************************************)
\* a step of TermCollect: the only action that moves the clock
TermPolled == clock' # clock

Subjects(events) == [i \in 1..Len(events) |-> events[i].subject]

LastN(s, n) == SubSeq(s, Len(s) - n + 1, Len(s))

\* the events of a sequence with a given subject and timestamp kind
EventsOf(events, kind, c) ==
    {i \in 1..Len(events) : events[i].subject = c /\ events[i].timestamp[1] = kind}

\* C1. Tail correctness: when the file only grew, by k complete entries, between
\* two polls, the second poll emits one shell.command event per new entry that
\* the ignore set lets through, in order, and nothing else.
C1_TailCorrectness ==
    [][(TermPolled /\ termSince.base = "poll" /\ termSince.what = "grew")
         => Subjects(termPoll'.events)
              = NonIgnored(LastN(histEntries, termSince.added))]_vars

\* C2 as stated. Shrink recovery: a poll that finds the file smaller than the
\* stored offset emits every remaining non-ignored entry exactly once, also
\* the entries emitted before the truncation.
C2_ShrinkEmitsAll ==
    [][(TermPolled /\ Len(history) < Get(file_positions, HistPath, 0))
         => Subjects(termPoll'.events) = NonIgnored(histEntries)]_vars

\* C2 as amended. A poll that finds the file smaller than the stored offset reads
\* it from offset 0 and emits one event per dedup key (timestamp, command) of the
\* remaining non-ignored entries that is not in the seen set: a timestamped
\* entry emitted before is not emitted again, an entry without a shell
\* timestamp is keyed by the time of the read and is.
C2_ShrinkRecovery ==
    [][(TermPolled /\ Len(history) < Get(file_positions, HistPath, 0))
         => LET evs == termPoll'.events
                stamped == {e \in SeqToSet(histEntries) :
                                e.ts # NoTs /\ ~ShouldIgnore(e.cmd)}
                plain == {i \in 1..Len(histEntries) :
                              histEntries[i].ts = NoTs
                              /\ ~ShouldIgnore(histEntries[i].cmd)}
                fresh == {e \in stamped : <<ShellTime(e.ts), e.cmd>> \notin seen_commands}
                nowEvents == {i \in 1..Len(evs) : evs[i].timestamp[1] = "now"}
            IN  /\ \A e \in stamped :
                     Cardinality({i \in 1..Len(evs) :
                                    /\ evs[i].subject = e.cmd
                                    /\ evs[i].timestamp = ShellTime(e.ts)})
                       = IF e \in fresh THEN 1 ELSE 0
                /\ \A i \in plain :
                     LET same == {j \in plain : histEntries[j].cmd = histEntries[i].cmd}
                         n == Cardinality(EventsOf(evs, "now", histEntries[i].cmd))
                     IN  1 <= n /\ n <= Cardinality(same)
                /\ Len(evs) = Cardinality(fresh) + Cardinality(nowEvents)
                /\ Cardinality(nowEvents) <= Cardinality(plain)
                /\ (history # <<>> => file_positions'[HistPath] = Len(history))]_vars

\* C2 witness: a poll found the file shrunk, emitted one remaining entry and
\* held back another whose key the seen set had from before the truncation.
C2_Witness ==
    /\ termPoll.done /\ termPoll.shrunk
    /\ Len(termPoll.events) >= 1
    /\ termPoll.held >= 1

(***************************************************************************)
(* BROWSER COLLECTOR  (collectors/browser.py)                             *)
(*                                                                         *)
(* Time is counted in ticks of the wall clock.  A browser stamps a visit  *)
(* with the clock in its native units: Chrome counts from 1601, Firefox   *)
(* from 1970.  Optional[int] is <<>> for None and <<n>> for n.  A URL is  *)
(* the pair of its scheme prefix and the rest.                            *)
(***************************************************************************)
MaxWall == 2         \* the wall clock stops at this tick
MaxRows == 3         \* visit rows in the history databases

Browsers == {"chrome", "firefox"}
ChromeEpochOffset == 4    \* 11644473600000000 microseconds, in ticks of the model
HourTicks == 2            \* timedelta(hours=1), in ticks of the model
QUERY_LIMIT == 100
VISITS_CAP == 10000
VISITS_EVICT == 5000

IGNORE_URL_PATTERNS == {"chrome://", "chrome-extension://", "about:",
                        "moz-extension://", "edge://", "brave://", "file://", "data:"}
Urls == { <<"https://", "docs.python.org/3">>, <<"chrome://", "settings">> }

ShouldIgnoreUrl(url) == url[1] \in IGNORE_URL_PATTERNS

\* the wall clock in a browser's native units
Native(b, t) == IF b = "chrome" THEN t + ChromeEpochOffset ELSE t
\* a native timestamp as wall-clock time
FromNative(b, n) == IF b = "chrome" THEN n - ChromeEpochOffset ELSE n

VisitKey(b, visit_time) == <<b, visit_time>>
VisitKeys == {VisitKey(b, Native(b, t)) : b \in Browsers, t \in 0..MaxWall}

\* ORDER BY visit_time DESC over rows with distinct visit times: the row with
\* k later rows is the (k + 1)-th
OrderByTimeDesc(rows) ==
    LET later == [r \in rows |-> Cardinality({q \in rows : q.visit_time > r.visit_time})]
    IN  [i \in 1..Cardinality(rows) |-> CHOOSE r \in rows : later[r] = i - 1]

\* the rows of a result that are not ignored, as visit dictionaries
VisitsOf(rows) ==
    LET kept == SelectSeq(rows, LAMBDA r : ~ShouldIgnoreUrl(r.url))
    IN  [i \in 1..Len(kept) |->
           [url |-> kept[i].url, browser |-> kept[i].browser,
            visit_time |-> kept[i].visit_time,
            timestamp |-> FromNative(kept[i].browser, kept[i].visit_time)]]

\* _read_chrome_history, _read_firefox_history
ReadBrowserHistory(b, db, since, now) ==
    LET since_visit_time == IF since = <<>> THEN Native(b, now - HourTicks) ELSE since[1]
        result == OrderByTimeDesc({r \in db : r.browser = b
                                               /\ r.visit_time > since_visit_time})
        fetched == SubSeq(result, 1, IF Len(result) < QUERY_LIMIT THEN Len(result)
                                     ELSE QUERY_LIMIT)
    IN  VisitsOf(fetched)

Max(a, b) == IF a >= b THEN a ELSE b

\* one for loop of collect() over the visits of a browser: a visit is new
\* when its key is neither in the seen set nor the key of a visit before it;
\* the new visits are yielded in order and the cursor is raised to the
\* greatest of their visit times
CollectVisits(visits, seen, cursor) ==
    LET visit_key == [i \in 1..Len(visits) |->
                        VisitKey(visits[i].browser, visits[i].visit_time)]
        new == {i \in 1..Len(visits) :
                   /\ visit_key[i] \notin seen
                   /\ \A j \in 1..(i - 1) : visit_key[j] # visit_key[i]}
        before == [i \in new |-> Cardinality({j \in new : j < i})]
        times == {visits[i].visit_time : i \in new}
                   \cup {IF cursor = <<>> THEN 0 ELSE cursor[1]}
    IN  [emitted |-> [k \in 1..Cardinality(new) |->
                        visits[CHOOSE i \in new : before[i] = k - 1]],
         seen |-> seen \cup {visit_key[i] : i \in new},
         cursor |-> IF new = {} THEN cursor
                    ELSE <<CHOOSE t \in times : \A u \in times : Max(t, u) = t>>]

\* the cap on _seen_visits; which keys list(set)[:5000] takes is not defined
EvictVisits(seen) ==
    IF Cardinality(seen) > VISITS_CAP
    THEN seen \ (CHOOSE S \in SUBSET seen : Cardinality(S) = VISITS_EVICT)
    ELSE seen

BrowserFrame ==
    UNCHANGED <<termVars, storeVars, infVars, graphVars, collVars, daemonVars, gitVars, procVars,
               confVars, histVars, backlogVars, restartVars>>

BrowserInit ==
    /\ places = {}
    /\ last_visit = [b \in Browsers |-> <<>>]
    /\ seen_visits = {}
    /\ browserRunning = FALSE
    /\ wall = 0
    /\ visitEvents = [k \in VisitKeys |-> 0]
    /\ returnedKeys = {}
    /\ laterPolls = 0

\* a browser records a visit, stamped with the clock
BrowserVisit(b, u) ==
    /\ BrowserFrame
    /\ Cardinality(places) < MaxRows
    /\ \A r \in places : ~(r.browser = b /\ r.visit_time = Native(b, wall))
    /\ places' = places \cup {[browser |-> b, visit_time |-> Native(b, wall), url |-> u]}
    /\ UNCHANGED <<last_visit, seen_visits, browserRunning, wall,
                   visitEvents, returnedKeys, laterPolls>>

WallTick ==
    /\ BrowserFrame
    /\ wall < MaxWall
    /\ wall' = wall + 1
    /\ UNCHANGED <<places, last_visit, seen_visits, browserRunning,
                   visitEvents, returnedKeys, laterPolls>>

\* start() seeding both cursors an hour back
BrowserStartBacklog ==
    /\ BrowserFrame
    /\ ~browserRunning
    /\ browserRunning' = TRUE
    /\ last_visit' = [b \in Browsers |-> <<Native(b, wall - HourTicks)>>]
    /\ UNCHANGED <<places, seen_visits, wall, visitEvents, returnedKeys, laterPolls>>

\* BaseCollector.run up to start(): both cursors are seeded with now
BrowserStart ==
    /\ BrowserFrame
    /\ ~browserRunning
    /\ browserRunning' = TRUE
    /\ last_visit' = [b \in Browsers |-> <<Native(b, wall)>>]
    /\ UNCHANGED <<places, seen_visits, wall, visitEvents, returnedKeys, laterPolls>>

\* stop(): the seen set is cleared, the cursors stay
BrowserStop ==
    /\ BrowserFrame
    /\ browserRunning
    /\ browserRunning' = FALSE
    /\ seen_visits' = {}
    /\ UNCHANGED <<places, last_visit, wall, visitEvents, returnedKeys, laterPolls>>

\* one turn of the while loop of collect(): Chrome, then Firefox, then the cap
BrowserCollect ==
    /\ BrowserFrame
    /\ browserRunning
    /\ LET chrome_visits == ReadBrowserHistory("chrome", places, last_visit["chrome"], wall)
           c == CollectVisits(chrome_visits, seen_visits, last_visit["chrome"])
           firefox_visits == ReadBrowserHistory("firefox", places,
                                                last_visit["firefox"], wall)
           f == CollectVisits(firefox_visits, c.seen, last_visit["firefox"])
           emitted == c.emitted \o f.emitted
           read == chrome_visits \o firefox_visits
       IN  /\ last_visit' = [b \in Browsers |->
                               IF b = "chrome" THEN c.cursor ELSE f.cursor]
           /\ seen_visits' = EvictVisits(f.seen)
           /\ visitEvents' =
                [k \in VisitKeys |->
                   LET n == visitEvents[k]
                            + Cardinality({i \in 1..Len(emitted) :
                                 VisitKey(emitted[i].browser, emitted[i].visit_time) = k})
                   IN  IF n > 2 THEN 2 ELSE n]
           /\ returnedKeys' = returnedKeys
                \cup {VisitKey(read[i].browser, read[i].visit_time) : i \in 1..Len(read)}
           /\ laterPolls' = IF (\E k \in VisitKeys : visitEvents[k] > 0) /\ laterPolls < 2
                            THEN laterPolls + 1 ELSE laterPolls
    /\ UNCHANGED <<places, browserRunning, wall>>

BrowserNext ==
    \/ \E b \in Browsers, u \in Urls : BrowserVisit(b, u)
    \/ WallTick
    \/ BrowserStart
    \/ BrowserStop
    \/ BrowserCollect

(***************************************************************************)
(* Claims on the browser collector                                        *)
(***************************************************************************)
\* C3. Browser dedup: over any sequence of polls, a history row, identified by
\* (browser, native visit timestamp), that a history read has returned has
\* produced exactly one browser.visit event, and no row has produced two.
C3_BrowserDedup ==
    \A k \in VisitKeys :
        /\ visitEvents[k] <= 1
        /\ (k \in returnedKeys => visitEvents[k] = 1)

\* C3 witness: rows of both browsers with the same wall-clock time have each
\* produced one event, the collector has been stopped and started again with
\* the rows still in the databases, and two more polls have run.
C3_Witness ==
    /\ laterPolls = 2
    /\ seen_visits = {}
    /\ browserRunning
    /\ \E t \in 0..MaxWall :
          /\ visitEvents[VisitKey("chrome", Native("chrome", t))] = 1
          /\ visitEvents[VisitKey("firefox", Native("firefox", t))] = 1

(***************************************************************************)
(* EVENT STORE  (storage/database.py)                                     *)
(*                                                                         *)
(* A row holds the columns the queries read: id, event_type, timestamp,   *)
(* source.  Two events may carry the same id with different contents.     *)
(***************************************************************************)
MaxTime == 1         \* event timestamps are 0..MaxTime

DEFAULT_LIMIT == 1000
EventIds == {"id1", "id2", "id3"}
MaxStored == Cardinality(EventIds)    \* rows in table events
EventKind(id) == IF id = "id2" THEN <<"shell.command", "terminal">>
                 ELSE <<"file.modify", "filesystem">>
StoreEvent == {[id |-> i, event_type |-> EventKind(i)[1], source |-> EventKind(i)[2],
                timestamp |-> t] : i \in EventIds, t \in 0..MaxTime}
Batches == UNION {[1..n -> StoreEvent] : n \in {1, 2}}

RowsWithId(table, id) == {i \in 1..Len(table) : table[i].id = id}

\* INSERT INTO events without the PRIMARY KEY of column id
InsertRowNoKey(table, open, event) ==
    IF ~open THEN [table |-> table, raised |-> TRUE]
    ELSE [table |-> Append(table, event), raised |-> FALSE]

\* insert_event: the INSERT fails on a closed connection and on a duplicate id
InsertRow(table, open, event) ==
    IF ~open \/ RowsWithId(table, event.id) # {}
    THEN [table |-> table, raised |-> TRUE]
    ELSE [table |-> Append(table, event), raised |-> FALSE]

\* insert_events giving up at the first row that fails
RECURSIVE InsertAllUntilError(_, _, _)
InsertAllUntilError(table, open, batch) ==
    IF batch = <<>> THEN table
    ELSE LET r == InsertRow(table, open, Head(batch))
         IN  IF r.raised THEN table ELSE InsertAllUntilError(r.table, open, Tail(batch))

\* the for loop of insert_events: a failing row is logged and skipped
RECURSIVE InsertAll(_, _, _)
InsertAll(table, open, batch) ==
    IF batch = <<>> THEN table
    ELSE InsertAll(InsertRow(table, open, Head(batch)).table, open, Tail(batch))

\* WHERE timestamp > ? AND timestamp <= ?
InRangeExclusive(row, start_time, end_time) ==
    row.timestamp > start_time /\ row.timestamp <= end_time

\* WHERE timestamp >= ? AND timestamp <= ?
InRange(row, start_time, end_time) ==
    row.timestamp >= start_time /\ row.timestamp <= end_time

\* the rows get_events_in_range selects; <<>> is None for a filter
Selected(table, start_time, end_time, event_types, sources) ==
    {i \in 1..Len(table) :
        /\ InRange(table[i], start_time, end_time)
        /\ (event_types # <<>> => table[i].event_type \in SeqToSet(event_types))
        /\ (sources # <<>> => table[i].source \in SeqToSet(sources))}

\* ORDER BY timestamp DESC: every order of the rows that is descending, rows
\* with equal timestamps in any order
OrderedDesc(table, rows) ==
    {f \in [1..Cardinality(rows) -> rows] :
        /\ \A i, j \in DOMAIN f : i # j => f[i] # f[j]
        /\ \A i, j \in DOMAIN f : i < j => table[f[i]].timestamp >= table[f[j]].timestamp}

Limit(s, n) == SubSeq(s, 1, IF Len(s) < n THEN Len(s) ELSE n)

NoCall == [op |-> "none"]
StoreFrame ==
    UNCHANGED <<termVars, browserVars, infVars, graphVars, collVars, daemonVars, gitVars, procVars,
               confVars, histVars, backlogVars, restartVars>>

StoreInit ==
    /\ events_table = <<>>
    /\ conn = FALSE
    /\ dbCall = NoCall
    /\ dbPrev = NoCall
    /\ dbInserted = <<>>

DbConnect ==
    /\ StoreFrame
    /\ ~conn
    /\ conn' = TRUE
    /\ dbCall' = NoCall /\ dbPrev' = NoCall
    /\ UNCHANGED <<events_table, dbInserted>>

DbClose ==
    /\ StoreFrame
    /\ conn
    /\ conn' = FALSE
    /\ dbCall' = NoCall /\ dbPrev' = NoCall
    /\ UNCHANGED <<events_table, dbInserted>>

InsertEvent(event) ==
    /\ StoreFrame
    /\ Len(events_table) < MaxStored
    /\ LET r == InsertRow(events_table, conn, event)
       IN  /\ events_table' = r.table
           /\ dbCall' = [op |-> "insert_event", event |-> event, raised |-> r.raised,
                         before |-> Len(events_table)]
    /\ dbPrev' = dbCall
    /\ UNCHANGED <<conn, dbInserted>>

InsertEvents(batch) ==
    /\ StoreFrame
    /\ Len(events_table) + Len(batch) <= MaxStored
    /\ events_table' = InsertAll(events_table, conn, batch)
    /\ dbCall' = [op |-> "insert_events", batch |-> batch, raised |-> FALSE,
                  returned |-> Len(batch), open |-> conn,
                  beforeIds |-> {events_table[i].id : i \in 1..Len(events_table)}]
    /\ dbPrev' = NoCall
    /\ UNCHANGED <<conn, dbInserted>>

GetEventsInRange(start_time, end_time, event_types, sources, limit) ==
    /\ StoreFrame
    /\ conn
    /\ \E order \in OrderedDesc(events_table,
                                Selected(events_table, start_time, end_time,
                                         event_types, sources)) :
          dbCall' = [op |-> "get_events_in_range", raised |-> FALSE,
                     start_time |-> start_time, end_time |-> end_time,
                     filtered |-> (event_types # <<>> \/ sources # <<>>),
                     limit |-> limit,
                     returned |-> Limit([i \in DOMAIN order |-> events_table[order[i]]],
                                        limit)]
    /\ dbPrev' = NoCall
    /\ UNCHANGED <<events_table, conn, dbInserted>>

StoreNext ==
    \/ DbConnect
    \/ DbClose
    \/ \E e \in StoreEvent : InsertEvent(e)
    \/ \E batch \in Batches : InsertEvents(batch)
    \/ \E a \in 0..MaxTime, b \in 0..MaxTime, limit \in {1, DEFAULT_LIMIT},
          types \in {<<>>, <<"file.modify">>}, sources \in {<<>>, <<"terminal">>} :
          GetEventsInRange(a, b, types, sources, limit)

(***************************************************************************)
(* Claims on the event store                                              *)
(***************************************************************************)
\* C4. Event identity: after insert_event(e) was called twice in succession,
\* the table has at most one row more than before the first call and at most
\* one row with e's id.
C4_EventIdentity ==
    (/\ dbCall.op = "insert_event" /\ dbPrev.op = "insert_event"
     /\ dbCall.event = dbPrev.event)
    => /\ Len(events_table) - dbPrev.before \in {0, 1}
       /\ Cardinality(RowsWithId(events_table, dbCall.event.id)) <= 1

\* C4 witness: the same event was inserted twice on an open connection; the
\* first call stored it, the second raised.
C4_Witness ==
    /\ dbCall.op = "insert_event" /\ dbPrev.op = "insert_event"
    /\ dbCall.event = dbPrev.event
    /\ ~dbPrev.raised /\ dbCall.raised
    /\ Len(events_table) = dbPrev.before + 1

\* C5. Best-effort batch: insert_events raises nothing and returns the number
\* of events it was given; on an open connection every event of the batch
\* whose id was not stored before is stored, whatever rows failed before it
\* in the batch (for an id the batch holds twice, its first event).
C5_BatchBestEffort ==
    dbCall.op = "insert_events"
    => /\ ~dbCall.raised
       /\ dbCall.returned = Len(dbCall.batch)
       /\ dbCall.open =>
            \A i \in 1..Len(dbCall.batch) :
               LET e == dbCall.batch[i]
                   first == \A j \in 1..(i - 1) : dbCall.batch[j].id # e.id
               IN  /\ RowsWithId(events_table, e.id) # {}
                   /\ (e.id \notin dbCall.beforeIds /\ first)
                        => \E k \in 1..Len(events_table) : events_table[k] = e

\* C5 witness: a batch whose first row failed on a duplicate id and whose
\* second row was stored.
C5_Witness ==
    /\ dbCall.op = "insert_events" /\ dbCall.open
    /\ Len(dbCall.batch) = 2
    /\ dbCall.batch[1].id \in dbCall.beforeIds
    /\ dbCall.batch[2].id \notin dbCall.beforeIds
    /\ events_table[Len(events_table)] = dbCall.batch[2]

StoredInRange(a, b) ==
    {i \in 1..Len(events_table) :
        a <= events_table[i].timestamp /\ events_table[i].timestamp <= b}

Occurrences(s, x) == Cardinality({i \in 1..Len(s) : s[i] = x})

UnfilteredQuery ==
    /\ dbCall.op = "get_events_in_range" /\ ~dbCall.filtered
    /\ Cardinality(StoredInRange(dbCall.start_time, dbCall.end_time)) <= dbCall.limit

\* C6 as stated. Range exactness: a query without filters whose range holds no
\* more events than the limit returns every stored event of the range exactly
\* once, ordered strictly descending by timestamp.
C6_RangeStrictlyDescending ==
    UnfilteredQuery
    => /\ \A i \in StoredInRange(dbCall.start_time, dbCall.end_time) :
             Occurrences(dbCall.returned, events_table[i]) = 1
       /\ \A i, j \in 1..Len(dbCall.returned) :
             i < j => dbCall.returned[i].timestamp > dbCall.returned[j].timestamp

\* C6 as amended. The result holds every stored event of the range exactly once
\* and nothing else, ordered descending by timestamp; events with equal
\* timestamps come in no defined order.
C6_RangeExactness ==
    UnfilteredQuery
    => /\ \A i \in StoredInRange(dbCall.start_time, dbCall.end_time) :
             Occurrences(dbCall.returned, events_table[i]) = 1
       /\ Len(dbCall.returned)
            = Cardinality(StoredInRange(dbCall.start_time, dbCall.end_time))
       /\ \A i, j \in 1..Len(dbCall.returned) :
             i < j => dbCall.returned[i].timestamp >= dbCall.returned[j].timestamp

\* C6 witness: a query returned two events with equal timestamps and a later
\* one before them.
C6_Witness ==
    /\ UnfilteredQuery
    /\ Len(dbCall.returned) = 3
    /\ dbCall.returned[1].timestamp > dbCall.returned[2].timestamp
    /\ dbCall.returned[2].timestamp = dbCall.returned[3].timestamp

(***************************************************************************)
(* INFERENCE ENGINE  (analysis/inference.py)                              *)
(*                                                                         *)
(* Timestamps and the gap threshold count minutes.  Scores are integers:  *)
(* EVENT_WEIGHTS in twentieths (0.7 is 14, the repository's weight * 1.5  *)
(* is 21), task confidences in two-hundredths (0.5 is 100).               *)
(***************************************************************************)
MaxMinute == 3       \* event timestamps are 0..MaxMinute

None == <<>>         \* an Optional field is None or <<value>>
Gaps == {1, 2}       \* the values of gap_threshold_minutes tried
ListLens == 0..3     \* the lengths of the event lists tried
BreakMinutes == {33, 47, 93}  \* later timestamps: after breaks of 30, 60 and 90 minutes
Minutes == (0..MaxMinute) \cup BreakMinutes

EVENT_WEIGHTS ==
    [t \in {"file.create", "file.modify", "file.delete", "file.move", "git.commit",
            "git.branch_switch", "git.branch_create", "process.start",
            "process.active", "shell.command", "browser.visit"} |->
        CASE t = "file.create" -> 16 [] t = "file.modify" -> 14
          [] t = "file.delete" -> 10 [] t = "file.move" -> 12
          [] t = "git.commit" -> 20 [] t = "git.branch_switch" -> 18
          [] t = "git.branch_create" -> 16 [] t = "process.start" -> 12
          [] t = "process.active" -> 8 [] t = "shell.command" -> 14
          [] t = "browser.visit" -> 10]
DEFAULT_WEIGHT == 10

\* TASK_PATTERNS in the order of the dict; min_browser_visits and min_commands
\* are None where the pattern has no such key
TASK_PATTERNS == <<
    [name |-> "coding", required_types |-> {"file.modify"},
     optional_types |-> {"git.commit", "shell.command"},
     process_hints |-> {"code", "vim", "nvim", "pycharm", "idea"},
     min_browser_visits |-> None, min_commands |-> None],
    [name |-> "research", required_types |-> {"browser.visit"},
     optional_types |-> {},
     process_hints |-> {"chrome", "firefox", "safari"},
     min_browser_visits |-> <<3>>, min_commands |-> None],
    [name |-> "git_workflow", required_types |-> {"git.commit"},
     optional_types |-> {"git.branch_switch"},
     process_hints |-> {},
     min_browser_visits |-> None, min_commands |-> None],
    [name |-> "terminal_work", required_types |-> {"shell.command"},
     optional_types |-> {},
     process_hints |-> {"terminal", "iterm", "alacritty"},
     min_browser_visits |-> None, min_commands |-> <<3>>],
    [name |-> "file_organization", required_types |-> {"file.move", "file.delete"},
     optional_types |-> {},
     process_hints |-> {"finder", "explorer"},
     min_browser_visits |-> None, min_commands |-> None] >>

\* the events tried: what they are about, at every minute
Activities == {
    [event_type |-> "file.modify", subject |-> "/a", repository |-> None,
     process_name |-> <<"code">>],
    [event_type |-> "file.modify", subject |-> "/b", repository |-> <<"/r">>,
     process_name |-> None],
    [event_type |-> "shell.command", subject |-> "make", repository |-> None,
     process_name |-> None] }
InfEvent == {[event_type |-> a.event_type, subject |-> a.subject,
              repository |-> a.repository, process_name |-> a.process_name,
              timestamp |-> t] : a \in Activities, t \in Minutes}
EventLists == UNION {[1..n -> InfEvent] : n \in ListLens}

\* the orders a list of events can be given in
Orders(s) ==
    {[i \in DOMAIN s |-> s[p[i]]] :
        p \in {q \in [DOMAIN s -> DOMAIN s] : \A i, j \in DOMAIN s : i # j => q[i] # q[j]}}

\* sorted(events, key=lambda e: e.timestamp): a stable sort
RECURSIVE SortedByTimestamp(_)
SortedByTimestamp(events) ==
    IF events = <<>> THEN <<>>
    ELSE LET n == Len(events)
             e == events[n]
             before == SortedByTimestamp(SubSeq(events, 1, n - 1))
             k == Cardinality({i \in 1..(n - 1) : before[i].timestamp <= e.timestamp})
         IN  SubSeq(before, 1, k) \o <<e>> \o SubSeq(before, k + 1, n - 1)

\* ActivityWindow(start_time, end_time, events) with the defaults of the model
ActivityWindow(event) ==
    [start_time |-> event.timestamp, end_time |-> event.timestamp,
     events |-> <<event>>, task_label |-> None, task_confidence |-> 0,
     key_subjects |-> <<>>]

\* ActivityWindow.add_event
WindowAddEvent(window, event) ==
    [window EXCEPT !.events = Append(@, event),
                   !.start_time = IF event.timestamp < @ THEN event.timestamp ELSE @,
                   !.end_time = IF event.timestamp > @ THEN event.timestamp ELSE @]

\* the for loop of create_windows with < in place of <=
RECURSIVE GroupStrict(_, _, _, _)
GroupStrict(sorted_events, windows, current_window, gap_threshold) ==
    IF sorted_events = <<>> THEN windows \o current_window
    ELSE LET event == Head(sorted_events)
         IN  IF current_window = None
             THEN GroupStrict(Tail(sorted_events), windows, <<ActivityWindow(event)>>,
                              gap_threshold)
             ELSE IF event.timestamp - current_window[1].end_time < gap_threshold
             THEN GroupStrict(Tail(sorted_events), windows,
                              <<WindowAddEvent(current_window[1], event)>>, gap_threshold)
             ELSE GroupStrict(Tail(sorted_events), windows \o current_window,
                              <<ActivityWindow(event)>>, gap_threshold)

\* the for loop of create_windows; the last window is appended at the end
RECURSIVE Group(_, _, _, _)
Group(sorted_events, windows, current_window, gap_threshold) ==
    IF sorted_events = <<>> THEN windows \o current_window
    ELSE LET event == Head(sorted_events)
         IN  IF current_window = None
             THEN Group(Tail(sorted_events), windows, <<ActivityWindow(event)>>,
                        gap_threshold)
             ELSE IF event.timestamp - current_window[1].end_time <= gap_threshold
             THEN Group(Tail(sorted_events), windows,
                        <<WindowAddEvent(current_window[1], event)>>, gap_threshold)
             ELSE Group(Tail(sorted_events), windows \o current_window,
                        <<ActivityWindow(event)>>, gap_threshold)

\* InferenceEngine.create_windows
CreateWindowsOf(events, gap_threshold_minutes) ==
    IF events = <<>> THEN <<>>
    ELSE Group(SortedByTimestamp(events), <<>>, None, gap_threshold_minutes)

\* _get_event_types, _get_process_names, _count_event_type
EventTypes(window) == {window.events[i].event_type : i \in 1..Len(window.events)}
ProcessNames(window) ==
    {window.events[i].process_name[1] :
        i \in {j \in 1..Len(window.events) : window.events[j].process_name # None}}
CountEventType(window, event_type) ==
    Cardinality({i \in 1..Len(window.events) : window.events[i].event_type = event_type})

Min(a, b) == IF a <= b THEN a ELSE b

\* the score infer_task gives a pattern whose required types are present
PatternScore(window, pattern) ==
    LET base == 100 + Cardinality(pattern.optional_types \cap EventTypes(window)) * 20
                    + Cardinality(pattern.process_hints \cap ProcessNames(window)) * 30
        visits == IF /\ pattern.min_browser_visits # None
                     /\ CountEventType(window, "browser.visit") < pattern.min_browser_visits[1]
                  THEN base \div 2 ELSE base
        commands == IF /\ pattern.min_commands # None
                       /\ CountEventType(window, "shell.command") < pattern.min_commands[1]
                    THEN visits \div 2 ELSE visits
    IN  Min(commands, 200)

\* the for loop of infer_task over TASK_PATTERNS
RECURSIVE BestMatch(_, _, _)
BestMatch(window, patterns, best_match) ==
    IF patterns = <<>> THEN best_match
    ELSE LET pattern == Head(patterns)
         IN  IF ~(pattern.required_types \subseteq EventTypes(window))
             THEN BestMatch(window, Tail(patterns), best_match)
             ELSE IF PatternScore(window, pattern) > best_match[2]
             THEN BestMatch(window, Tail(patterns),
                            <<pattern.name, PatternScore(window, pattern)>>)
             ELSE BestMatch(window, Tail(patterns), best_match)

\* InferenceEngine.infer_task
InferTask(window) == BestMatch(window, TASK_PATTERNS, <<"general_activity", 60>>)

\* subject_scores[key] += weight on a dict kept as the sequence of its items
AddScore(subject_scores, key, weight) ==
    IF \E i \in 1..Len(subject_scores) : subject_scores[i][1] = key
    THEN [i \in 1..Len(subject_scores) |->
            IF subject_scores[i][1] = key
            THEN <<key, subject_scores[i][2] + weight>> ELSE subject_scores[i]]
    ELSE Append(subject_scores, <<key, weight>>)

\* the for loop of _extract_key_subjects
RECURSIVE SubjectScores(_, _)
SubjectScores(events, subject_scores) ==
    IF events = <<>> THEN subject_scores
    ELSE LET event == Head(events)
             weight == Get(EVENT_WEIGHTS, event.event_type, DEFAULT_WEIGHT)
             scored == AddScore(subject_scores, event.subject, weight)
         IN  SubjectScores(Tail(events),
                           IF event.repository # None
                           THEN AddScore(scored, event.repository[1], (weight * 3) \div 2)
                           ELSE scored)

\* sorted(items, key=score, reverse=True): stable, equal scores keep their order
RECURSIVE SortedByScoreDesc(_)
SortedByScoreDesc(items) ==
    IF items = <<>> THEN <<>>
    ELSE LET n == Len(items)
             x == items[n]
             before == SortedByScoreDesc(SubSeq(items, 1, n - 1))
             k == Cardinality({i \in 1..(n - 1) : before[i][2] >= x[2]})
         IN  SubSeq(before, 1, k) \o <<x>> \o SubSeq(before, k + 1, n - 1)

\* InferenceEngine._extract_key_subjects
ExtractKeySubjects(window) ==
    LET sorted_subjects == SortedByScoreDesc(SubjectScores(window.events, <<>>))
    IN  [i \in 1..Min(Len(sorted_subjects), 5) |-> sorted_subjects[i][1]]

\* InferenceEngine.analyze_windows
AnalyzeWindowsOf(windows) ==
    [i \in 1..Len(windows) |->
        [windows[i] EXCEPT !.task_label = <<InferTask(windows[i])[1]>>,
                           !.task_confidence = InferTask(windows[i])[2],
                           !.key_subjects = ExtractKeySubjects(windows[i])]]

\* the gap above which detect_context_switches reports a break, in minutes
BREAK_MINUTES == 30

\* (curr.start_time - prev.end_time).total_seconds() / 60
GapMinutes(prev, curr) == curr.start_time - prev.end_time

\* len(prev_subjects.intersection(curr_subjects))
Overlap(prev, curr) ==
    Cardinality(SeqToSet(prev.key_subjects) \cap SeqToSet(curr.key_subjects))

\* the two ifs of detect_context_switches with "and" in place of "or"
IsSwitchBoth(prev, curr) ==
    /\ prev.task_label # curr.task_label
    /\ Overlap(prev, curr) = 0 /\ GapMinutes(prev, curr) > BREAK_MINUTES

\* the two ifs of detect_context_switches: is the pair a context switch
IsSwitch(prev, curr) ==
    /\ prev.task_label # curr.task_label
    /\ Overlap(prev, curr) = 0 \/ GapMinutes(prev, curr) > BREAK_MINUTES

\* the f-strings of the description, as the sequence of their pieces
Description(prev, curr) ==
    <<"Switched from", prev.task_label[1], "to", curr.task_label[1]>>
    \o (IF GapMinutes(prev, curr) > BREAK_MINUTES
        THEN <<"(after", GapMinutes(prev, curr), "min break)">> ELSE <<>>)

\* the for loop of detect_context_switches from index i on
RECURSIVE SwitchesFrom(_, _, _)
SwitchesFrom(windows, i, switches) ==
    IF i > Len(windows) THEN switches
    ELSE LET prev == windows[i - 1]
             curr == windows[i]
         IN  SwitchesFrom(windows, i + 1,
                          IF IsSwitch(prev, curr)
                          THEN Append(switches, <<prev, curr, Description(prev, curr)>>)
                          ELSE switches)

\* InferenceEngine.detect_context_switches
DetectContextSwitchesOf(windows) == SwitchesFrom(windows, 2, <<>>)

\* stall_threshold_minutes: the default of find_stalled_tasks
STALL_THRESHOLD_MINUTES == 60

\* "/" in subject or "\\" in subject, on the subjects of Activities
IsPathLike(subject) == subject \in {"/a", "/b", "/r"}

\* gap > threshold with >= in place of >
IsStalledAtThreshold(current, next_window, threshold) ==
    next_window.start_time - current.end_time >= threshold

\* gap = next_window.start_time - current.end_time; gap > threshold
IsStalled(current, next_window, threshold) ==
    next_window.start_time - current.end_time > threshold

\* InferenceEngine.find_stalled_tasks; a reason is the sequence of the pieces of
\* its f-string
FindStalledTasksOf(windows, stall_threshold_minutes) ==
    LET subjects == Flatten([i \in 1..Len(windows) |-> windows[i].key_subjects])
        firsts == {i \in 1..Len(subjects) :
                      /\ IsPathLike(subjects[i])
                      /\ \A j \in 1..(i - 1) : subjects[j] # subjects[i]}
        \* the keys of project_windows, in the order of their insertion
        projects == [k \in 1..Cardinality(firsts) |->
                        subjects[CHOOSE i \in firsts :
                                    Cardinality({j \in firsts : j < i}) = k - 1]]
        \* project_windows[project]
        ProjWindows(project) ==
            SelectSeq(windows, LAMBDA w : project \in SeqToSet(w.key_subjects))
        \* sorted(proj_windows, key=lambda w: w.end_time): a stable sort
        Sorted(ws) ==
            [k \in 1..Len(ws) |->
                ws[CHOOSE i \in 1..Len(ws) :
                      Cardinality({j \in 1..Len(ws) :
                                      \/ ws[j].end_time < ws[i].end_time
                                      \/ ws[j].end_time = ws[i].end_time /\ j < i})
                      = k - 1]]
        \* the stalls the body of the loop over project_windows appends
        StallsOf(project) ==
            LET sorted_windows == Sorted(ProjWindows(project))
                stalled == SelectSeq([i \in 1..(Len(sorted_windows) - 1) |-> i],
                                     LAMBDA i : IsStalled(sorted_windows[i],
                                                          sorted_windows[i + 1],
                                                          stall_threshold_minutes))
            IN  [k \in 1..Len(stalled) |->
                    <<sorted_windows[stalled[k]],
                      <<"Work on", project, "paused for",
                        sorted_windows[stalled[k] + 1].start_time
                            - sorted_windows[stalled[k]].end_time,
                        "minutes">> >>]
    IN  Flatten([k \in 1..Len(projects) |-> StallsOf(projects[k])])

\* the windows in the opposite order
Reversed(windows) == [i \in 1..Len(windows) |-> windows[Len(windows) + 1 - i]]

InfFrame ==
    UNCHANGED <<termVars, browserVars, storeVars, graphVars, collVars, daemonVars, gitVars, procVars,
               confVars, histVars, backlogVars, restartVars>>

\* an engine and the two orders of one event list it will be given
InfInit ==
    /\ infEvents \in EventLists
    /\ infPermuted \in Orders(infEvents)
    /\ infGap \in Gaps
    /\ infWindows = <<>>
    /\ infWindowsPermuted = <<>>
    /\ infStage = "input"
    /\ infSwitches = <<>>
    /\ infStalls = <<>>

\* an engine that is given nothing
InfIdle ==
    /\ infEvents = <<>> /\ infPermuted = <<>> /\ infGap = 1
    /\ infWindows = <<>> /\ infWindowsPermuted = <<>>
    /\ infStage = "input"
    /\ infSwitches = <<>>
    /\ infStalls = <<>>

CreateWindows ==
    /\ InfFrame
    /\ infStage = "input"
    /\ infWindows' = CreateWindowsOf(infEvents, infGap)
    /\ infWindowsPermuted' = CreateWindowsOf(infPermuted, infGap)
    /\ infStage' = "windowed"
    /\ UNCHANGED <<infEvents, infPermuted, infGap, infSwitches, infStalls>>

AnalyzeWindows ==
    /\ InfFrame
    /\ infStage = "windowed"
    /\ infWindows' = AnalyzeWindowsOf(infWindows)
    /\ infWindowsPermuted' = AnalyzeWindowsOf(infWindowsPermuted)
    /\ infStage' = "analyzed"
    /\ UNCHANGED <<infEvents, infPermuted, infGap, infSwitches, infStalls>>

DetectContextSwitches ==
    /\ InfFrame
    /\ infStage = "analyzed"
    /\ infSwitches' = DetectContextSwitchesOf(infWindows)
    /\ infStage' = "detected"
    /\ UNCHANGED <<infEvents, infPermuted, infGap, infWindows, infWindowsPermuted,
                   infStalls>>

\* find_stalled_tasks(windows) on the analyzed windows, in either order
FindStalledTasks ==
    /\ InfFrame
    /\ infStage = "detected"
    /\ \E windows \in {infWindows, Reversed(infWindows)} :
          infStalls' = [windows |-> windows,
                        stalls |-> FindStalledTasksOf(windows, STALL_THRESHOLD_MINUTES)]
    /\ infStage' = "stalls"
    /\ UNCHANGED <<infEvents, infPermuted, infGap, infWindows, infWindowsPermuted,
                   infSwitches>>

InfNext == CreateWindows \/ AnalyzeWindows \/ DetectContextSwitches \/ FindStalledTasks

(***************************************************************************)
(* Claims on the inference engine                                         *)
(***************************************************************************)
WindowEvents(windows) == Flatten([i \in 1..Len(windows) |-> windows[i].events])

\* the index of the window that holds the k-th event of WindowEvents(windows)
WindowOf(windows, k) ==
    CHOOSE w \in 1..Len(windows) :
        /\ Len(WindowEvents(SubSeq(windows, 1, w - 1))) < k
        /\ k <= Len(WindowEvents(SubSeq(windows, 1, w)))

\* C7. Window containment: the windows of create_windows, one after the
\* other, hold the events of the input in timestamp order, every event once;
\* two events adjacent in that order are in the same window exactly when their
\* timestamps differ by at most gap minutes; the end of a window is more than
\* gap minutes before the start of the next; an empty input gives no windows.
C7_WindowContainment ==
    infStage = "windowed"
    => LET all == WindowEvents(infWindows)
       IN  /\ Len(all) = Len(infEvents)
           /\ \A e \in InfEvent : Occurrences(all, e) = Occurrences(infEvents, e)
           /\ \A w \in 1..Len(infWindows) : infWindows[w].events # <<>>
           /\ \A k \in 1..(Len(all) - 1) :
                 /\ all[k].timestamp <= all[k + 1].timestamp
                 /\ (WindowOf(infWindows, k) = WindowOf(infWindows, k + 1))
                      <=> (all[k + 1].timestamp - all[k].timestamp <= infGap)
           /\ \A w \in 1..(Len(infWindows) - 1) :
                 infWindows[w + 1].start_time - infWindows[w].end_time > infGap
           /\ (infEvents = <<>> => infWindows = <<>>)

\* C7 witness: three events given out of order make two windows; two of them
\* are exactly gap minutes apart and share a window.
C7_Witness ==
    /\ infStage = "windowed"
    /\ Len(infEvents) = 3 /\ Len(infWindows) = 2
    /\ infEvents[1].timestamp > infEvents[2].timestamp
    /\ Len(infWindows[1].events) = 2
    /\ infWindows[1].end_time - infWindows[1].start_time = infGap

\* what C8 compares of a window: its bounds, the events in it, label,
\* confidence and key_subjects list
WindowResult(window) ==
    [start_time |-> window.start_time, end_time |-> window.end_time,
     members |-> [e \in InfEvent |-> Occurrences(window.events, e)],
     task_label |-> window.task_label, task_confidence |-> window.task_confidence,
     key_subjects |-> window.key_subjects]

\* C8. Analysis determinism: create_windows followed by analyze_windows gives
\* two orders of the same events the same sequence of windows, with the same
\* events in them, the same task labels, confidences and key_subjects lists.
C8_AnalysisDeterminism ==
    infStage = "analyzed"
    => /\ Len(infWindows) = Len(infWindowsPermuted)
       /\ \A w \in 1..Len(infWindows) :
             WindowResult(infWindows[w]) = WindowResult(infWindowsPermuted[w])

\* the rules of TASK_PATTERNS whose required event types are all in the window
MatchingRules(window) ==
    {i \in 1..Len(TASK_PATTERNS) :
        TASK_PATTERNS[i].required_types \subseteq EventTypes(window)}

\* C19. Task scoring: the label and confidence of an analysed window are those
\* of a highest-scoring rule among the rules whose required event types are all
\* present in the window, and they are general_activity and 0.3 exactly when
\* no rule has all its required event types present.
C19_TaskScoring ==
    infStage = "analyzed"
    => \A w \in 1..Len(infWindows) :
          LET window == infWindows[w]
              matching == MatchingRules(window)
          IN  /\ (matching = {})
                   <=> (window.task_label = <<"general_activity">>
                        /\ window.task_confidence = 60)
              /\ matching # {}
                   => \E i \in matching :
                         /\ window.task_label = <<TASK_PATTERNS[i].name>>
                         /\ window.task_confidence = PatternScore(window, TASK_PATTERNS[i])
                         /\ \A j \in matching :
                               PatternScore(window, TASK_PATTERNS[j])
                                   <= PatternScore(window, TASK_PATTERNS[i])

\* the records detect_context_switches returned for the pair of windows i, i + 1
SwitchRecords(i) ==
    {k \in 1..Len(infSwitches) :
        infSwitches[k][1] = infWindows[i] /\ infSwitches[k][2] = infWindows[i + 1]}

\* C20. Context switches: detect_context_switches returns one record for every
\* pair of adjacent windows whose labels differ and that share no key subject
\* or are more than 30 minutes apart, and none for any other pair; the records
\* are in the order of the pairs; the description of a record names the two
\* labels, and the whole minutes of the gap when the gap is above 30.
C20_ContextSwitches ==
    infStage = "detected"
    => /\ \A i \in 1..(Len(infWindows) - 1) :
             LET prev == infWindows[i]
                 curr == infWindows[i + 1]
                 gap == curr.start_time - prev.end_time
                 differ == prev.task_label # curr.task_label
                 shared == \E s \in SeqToSet(prev.key_subjects) :
                               s \in SeqToSet(curr.key_subjects)
             IN  /\ Cardinality(SwitchRecords(i))
                      = IF differ /\ (~shared \/ gap > 30) THEN 1 ELSE 0
                 /\ \A k \in SwitchRecords(i) :
                       /\ SubSeq(infSwitches[k][3], 1, 4)
                            = <<"Switched from", prev.task_label[1],
                                "to", curr.task_label[1]>>
                       /\ IF gap > 30
                          THEN SubSeq(infSwitches[k][3], 5, 7)
                                   = <<"(after", gap, "min break)">>
                          ELSE Len(infSwitches[k][3]) = 4
       /\ \A k \in 1..Len(infSwitches) :
             \E i \in 1..(Len(infWindows) - 1) : k \in SwitchRecords(i)
       /\ \A k \in 1..(Len(infSwitches) - 1) :
             infSwitches[k][1].start_time < infSwitches[k + 1][1].start_time

\* C20 witness: two windows that differ in label and share a key subject,
\* 45 minutes apart: one record, there for the gap alone, saying "45 min".
C20_Witness ==
    /\ infStage = "detected"
    /\ Len(infWindows) = 2 /\ Len(infSwitches) = 1
    /\ Overlap(infWindows[1], infWindows[2]) > 0
    /\ infSwitches[1][1] = infWindows[1] /\ infSwitches[1][2] = infWindows[2]
    /\ infSwitches[1][3] = <<"Switched from", infWindows[1].task_label[1], "to",
                             infWindows[2].task_label[1], "(after", 45, "min break)">>

\* the windows given to find_stalled_tasks that have the subject among their key
\* subjects, and the order of two windows by their end
StallGroup(subject) ==
    {i \in 1..Len(infStalls.windows) :
        subject \in SeqToSet(infStalls.windows[i].key_subjects)}
EndsBefore(i, j) ==
    \/ infStalls.windows[i].end_time < infStalls.windows[j].end_time
    \/ infStalls.windows[i].end_time = infStalls.windows[j].end_time /\ i < j

\* <<subject, i, j>>: window j is next after window i in the group of a path-like
\* subject, and starts more than the threshold after window i ends
StalledPairs ==
    {p \in {"/a", "/b", "/r", "make"} \X (1..Len(infStalls.windows))
                                     \X (1..Len(infStalls.windows)) :
        /\ p[1] \in {"/a", "/b", "/r"}
        /\ p[2] \in StallGroup(p[1]) /\ p[3] \in StallGroup(p[1])
        /\ p[2] # p[3] /\ EndsBefore(p[2], p[3])
        /\ \A k \in StallGroup(p[1]) \ {p[2], p[3]} :
              ~(EndsBefore(p[2], k) /\ EndsBefore(k, p[3]))
        /\ infStalls.windows[p[3]].start_time - infStalls.windows[p[2]].end_time > 60}

\* C21: find_stalled_tasks returns exactly one record for each adjacent pair of
\* the group of a path-like key subject (the group ordered by window end) whose
\* gap from the end of the earlier window to the start of the later one exceeds
\* 60 minutes; the record holds the earlier window and names the subject and the
\* gap in minutes; there are no other records.
C21_Stalls ==
    infStage = "stalls" =>
       /\ Len(infStalls.stalls) = Cardinality(StalledPairs)
       /\ \A p \in StalledPairs :
             Cardinality({k \in 1..Len(infStalls.stalls) :
                 infStalls.stalls[k] =
                     <<infStalls.windows[p[2]],
                       <<"Work on", p[1], "paused for",
                         infStalls.windows[p[3]].start_time
                             - infStalls.windows[p[2]].end_time,
                         "minutes">> >>}) = 1

\* C21 witness: two coding windows on key subject /a, 90 minutes apart, give the
\* one record that names /a and 90 minutes.
C21_Witness ==
    /\ infStage = "stalls"
    /\ Len(infStalls.windows) = 2
    /\ \A i \in 1..2 : /\ infStalls.windows[i].key_subjects = <<"/a">>
                        /\ infStalls.windows[i].task_label = <<"coding">>
    /\ \E i, j \in 1..2 :
          /\ infStalls.windows[j].start_time - infStalls.windows[i].end_time = 90
          /\ infStalls.stalls =
                << <<infStalls.windows[i],
                     <<"Work on", "/a", "paused for", 90, "minutes">> >> >>

(***************************************************************************)
(* ACTIVITY GRAPH  (analysis/graph.py)                                    *)
(*                                                                         *)
(* A node id is <<prefix, value>>, a URL <<scheme, netloc, path>>, a      *)
(* command the sequence of its words.  The attributes of a node are a     *)
(* function from attribute names; an edge is the set of its two ends.     *)
(***************************************************************************)
MaxCalls == 2        \* add_event and add_window calls in a behaviour

GraphStamps == {1, 2}
NODE_TYPES == [file |-> "file:", repo |-> "repo:", url |-> "url:", command |-> "cmd:",
               process |-> "proc:", domain |-> "domain:"]

\* the events tried: a file, a page, a command line, an empty command line, a
\* commit outside a repository and one in a repository, a branch creation, the
\* start and the end of a process
GraphActivities == {
    [event_type |-> "file.modify", subject |-> "/a", repository |-> None,
     url |-> None, title |-> None, process_name |-> None],
    [event_type |-> "browser.visit", subject |-> "page", repository |-> None,
     url |-> << <<"https", "x.org", "/p">> >>, title |-> <<"P">>, process_name |-> None],
    [event_type |-> "shell.command", subject |-> <<"make", "test">>, repository |-> None,
     url |-> None, title |-> None, process_name |-> None],
    [event_type |-> "shell.command", subject |-> <<>>, repository |-> None,
     url |-> None, title |-> None, process_name |-> None],
    [event_type |-> "git.commit", subject |-> "msg", repository |-> None,
     url |-> None, title |-> None, process_name |-> None],
    [event_type |-> "git.commit", subject |-> "msg", repository |-> <<"/r">>,
     url |-> None, title |-> None, process_name |-> None],
    [event_type |-> "git.branch_create", subject |-> "dev", repository |-> <<"/r">>,
     url |-> None, title |-> None, process_name |-> None],
    [event_type |-> "process.start", subject |-> "code", repository |-> None,
     url |-> None, title |-> None, process_name |-> <<"code">>],
    [event_type |-> "process.end", subject |-> "code", repository |-> None,
     url |-> None, title |-> None, process_name |-> <<"code">>] }
GraphEvent == {[event_type |-> a.event_type, subject |-> a.subject,
                repository |-> a.repository, url |-> a.url, title |-> a.title,
                process_name |-> a.process_name, timestamp |-> t] :
                  a \in GraphActivities, t \in GraphStamps}
\* a window of three events: a file, a command and a page
FileCommandPage ==
    <<CHOOSE e \in GraphEvent : e.event_type = "file.modify" /\ e.timestamp = 1,
      CHOOSE e \in GraphEvent : e.event_type = "shell.command" /\ e.subject # <<>>
                                   /\ e.timestamp = 1,
      CHOOSE e \in GraphEvent : e.event_type = "browser.visit" /\ e.timestamp = 1>>
\* the windows tried: two events one after the other, each of which has a
\* node, and the window of three
GraphWindows ==
    {w \in [1..2 -> GraphEvent] :
        /\ w[1].timestamp = 1 /\ w[2].timestamp = 2
        /\ \A i \in 1..2 : \/ w[i].event_type \in {"file.modify", "browser.visit",
                                                     "process.start"}
                            \/ (w[i].event_type = "shell.command" /\ w[i].subject # <<>>)
                            \/ (w[i].event_type = "git.commit" /\ w[i].repository # None)}
    \cup {FileCommandPage}

EmptyGraph == [nodes |-> <<>>, edges |-> <<>>]

\* ActivityGraph._get_node_id (no value tried is longer than 200 characters)
GetNodeId(node_type, value) == <<NODE_TYPES[node_type], value>>

\* ActivityGraph._extract_domain: urlparse(url).netloc
ExtractDomain(url) == url[2]

IsoFormat(t) == <<"iso", t>>

FILE_TYPES == {"file.create", "file.modify", "file.delete", "file.move"}
GIT_TYPES == {"git.commit", "git.branch_switch"}
PROCESS_TYPES == {"process.start", "process.active"}

\* the node add_event makes for the event: None or <<node_id, node_attrs>>
EventNode(event) ==
    LET node_attrs == [last_seen |-> IsoFormat(event.timestamp), event_count |-> 1]
    IN  CASE event.event_type \in FILE_TYPES ->
               << <<GetNodeId("file", event.subject),
                    [type |-> "file", path |-> event.subject] @@ node_attrs>> >>
          [] event.event_type \in GIT_TYPES /\ event.repository # None ->
               << <<GetNodeId("repo", event.repository[1]),
                    [type |-> "repo", path |-> event.repository[1]] @@ node_attrs>> >>
          [] event.event_type = "browser.visit" /\ event.url # None ->
               << <<GetNodeId("url", event.url[1]),
                    [type |-> "url", url |-> event.url[1], title |-> event.title]
                      @@ node_attrs>> >>
          [] event.event_type = "shell.command" /\ event.subject # <<>> ->
               << <<GetNodeId("command", event.subject[1]),
                    [type |-> "command", command |-> event.subject[1]] @@ node_attrs>> >>
          [] event.event_type \in PROCESS_TYPES /\ event.process_name # None ->
               << <<GetNodeId("process", event.process_name[1]),
                    [type |-> "process", name |-> event.process_name[1]] @@ node_attrs>> >>
          [] OTHER -> None

\* the domain node of a browser.visit event: None or <<domain_id>>
DomainNode(event) ==
    IF /\ event.event_type = "browser.visit" /\ event.url # None
       /\ ExtractDomain(event.url[1]) # ""
    THEN <<GetNodeId("domain", ExtractDomain(event.url[1]))>>
    ELSE None

\* add_event counting an existing node down instead of up
CountNodeDown(nodes, node_id, fresh, seen) ==
    IF node_id \in DOMAIN nodes
    THEN (node_id :> (seen @@ [event_count |-> Get(nodes[node_id], "event_count", 0) - 1]
                        @@ nodes[node_id])) @@ nodes
    ELSE (node_id :> fresh) @@ nodes

\* "if node_id in self._graph: ... else: add_node": an existing node is counted
\* once more and takes the attributes of seen, a new one takes those of fresh
CountNode(nodes, node_id, fresh, seen) ==
    IF node_id \in DOMAIN nodes
    THEN (node_id :> (seen @@ [event_count |-> Get(nodes[node_id], "event_count", 0) + 1]
                        @@ nodes[node_id])) @@ nodes
    ELSE (node_id :> fresh) @@ nodes

\* add_event without the domain node of a page
AddEventToNoDomain(g, event) ==
    LET node == EventNode(event)
    IN  [g EXCEPT !.nodes =
            IF node = None THEN g.nodes
            ELSE CountNode(g.nodes, node[1][1], node[1][2],
                           [last_seen |-> IsoFormat(event.timestamp)])]

\* ActivityGraph.add_event
AddEventTo(g, event) ==
    LET domain_id == DomainNode(event)
        withDomain == IF domain_id = None THEN g.nodes
                      ELSE CountNode(g.nodes, domain_id[1],
                                     [type |-> "domain", domain |-> domain_id[1][2],
                                      event_count |-> 1], <<>>)
        node == EventNode(event)
    IN  [g EXCEPT !.nodes =
            IF node = None THEN withDomain
            ELSE CountNode(withDomain, node[1][1], node[1][2],
                           [last_seen |-> IsoFormat(event.timestamp)])]

\* the first for loop of add_window
RECURSIVE AddEventsTo(_, _)
AddEventsTo(g, events) ==
    IF events = <<>> THEN g ELSE AddEventsTo(AddEventTo(g, Head(events)), Tail(events))

\* the node ids add_window collects, with the node of the URL for a page
WindowNodeIdsUrl(events) ==
    UNION {IF EventNode(events[i]) = None THEN {}
           ELSE {EventNode(events[i])[1][1]} : i \in 1..Len(events)}

\* the node ids add_window collects: the event's node, for a page its domain
WindowNodeIds(events) ==
    UNION {IF events[i].event_type = "browser.visit"
           THEN SeqToSet(DomainNode(events[i]))
           ELSE IF EventNode(events[i]) = None THEN {}
           ELSE {EventNode(events[i])[1][1]} : i \in 1..Len(events)}

\* "Create edges between all pairs" leaving an edge that exists as it is
AddEdgesOnce(g, node_ids) ==
    LET pairs == {{u, v} : u, v \in node_ids} \ {{u} : u \in node_ids}
    IN  [nodes |-> g.nodes @@ [n \in node_ids |-> <<>>],
         edges |-> g.edges @@ [e \in pairs |-> [weight |-> 1]]]

\* "Create edges between all pairs": add_edge also adds a missing end
AddEdges(g, node_ids) ==
    LET pairs == {{u, v} : u, v \in node_ids} \ {{u} : u \in node_ids}
    IN  [nodes |-> g.nodes @@ [n \in node_ids |-> <<>>],
         edges |-> [e \in pairs |->
                      IF e \in DOMAIN g.edges
                      THEN [weight |-> g.edges[e].weight + 1]
                      ELSE [weight |-> 1]] @@ g.edges]

\* ActivityGraph.add_window
AddWindowTo(g, window) == AddEdges(AddEventsTo(g, window.events), WindowNodeIds(window.events))

\* the elements of a set one after the other, as a dict or a pickle lists them
RECURSIVE SetToSeq(_)
SetToSeq(S) ==
    IF S = {} THEN <<>> ELSE LET x == CHOOSE y \in S : TRUE IN <<x>> \o SetToSeq(S \ {x})

\* a function from the list of its (key, value) items
FromItems(items) ==
    [k \in {items[i][1] : i \in 1..Len(items)} |->
        (CHOOSE i \in 1..Len(items) : items[i][1] = k) ]

ItemsOf(f) == [i \in 1..Cardinality(DOMAIN f) |->
                 <<SetToSeq(DOMAIN f)[i], f[SetToSeq(DOMAIN f)[i]]>>]

\* a pickle that keeps the adjacency only: nodes without edges and all node
\* attributes are lost
PickleDumpEdges(g) ==
    <<"nx.Graph",
      [i \in 1..Cardinality(UNION DOMAIN g.edges) |->
          <<SetToSeq(UNION DOMAIN g.edges)[i], <<>> >>],
      [i \in 1..Cardinality(DOMAIN g.edges) |->
          <<SetToSeq(SetToSeq(DOMAIN g.edges)[i]), ItemsOf(g.edges[SetToSeq(DOMAIN g.edges)[i]])>>]>>

\* pickle.dump(self._graph, f): the node dict and the adjacency written out as
\* lists of items, attribute dicts included
PickleDump(g) ==
    <<"nx.Graph",
      [i \in 1..Cardinality(DOMAIN g.nodes) |->
          <<SetToSeq(DOMAIN g.nodes)[i], ItemsOf(g.nodes[SetToSeq(DOMAIN g.nodes)[i]])>>],
      [i \in 1..Cardinality(DOMAIN g.edges) |->
          <<SetToSeq(SetToSeq(DOMAIN g.edges)[i]), ItemsOf(g.edges[SetToSeq(DOMAIN g.edges)[i]])>>]>>

\* pickle.load(f)
PickleLoad(bytes) ==
    LET nodeItems == bytes[2]
        edgeItems == bytes[3]
    IN  [nodes |-> [n \in {nodeItems[i][1] : i \in 1..Len(nodeItems)} |->
                      LET items == nodeItems[FromItems(nodeItems)[n]][2]
                      IN  [k \in DOMAIN FromItems(items) |-> items[FromItems(items)[k]][2]]],
         edges |-> [e \in {SeqToSet(edgeItems[i][1]) : i \in 1..Len(edgeItems)} |->
                      LET i == CHOOSE j \in 1..Len(edgeItems) : SeqToSet(edgeItems[j][1]) = e
                          items == edgeItems[i][2]
                      IN  [k \in DOMAIN FromItems(items) |-> items[FromItems(items)[k]][2]]]]

\* the loop "for depth in range(max_depth)" of get_related_nodes from depth on:
\* the contents related can have at the end, as the sequence of its items in
\* the order of their insertion.  The sets current and neighbors(node) are
\* iterated in an order the hashes and the history of the graph decide: a node
\* found from several nodes of current takes the weight of any of these edges,
\* and the nodes found in one round are inserted in any order.
RECURSIVE RelatedFrom(_, _, _, _, _, _, _)
RelatedFrom(g, depth, max_depth, min_weight, related, visited, current) ==
    IF depth >= max_depth THEN {related}
    ELSE LET Weight(u, v) == Get(g.edges[{u, v}], "weight", 1)
             Found(v) == {c \in current : /\ {c, v} \in DOMAIN g.edges
                                          /\ Weight(c, v) >= min_weight}
             next_nodes == {v \in DOMAIN g.nodes \ visited : Found(v) # {}}
             weights == {f \in [next_nodes -> {g.edges[e].weight : e \in DOMAIN g.edges}] :
                            \A v \in next_nodes : \E c \in Found(v) : f[v] = Weight(c, v)}
             added == UNION {Orders(SetToSeq({<<v, f[v]>> : v \in next_nodes})) :
                                f \in weights}
         IN  UNION {RelatedFrom(g, depth + 1, max_depth, min_weight,
                                related \o a, visited \cup next_nodes, next_nodes) :
                       a \in added}

\* get_related_nodes following every edge, whatever its weight
GetRelatedNodesAnyWeight(g, node_id, max_depth, min_weight) ==
    IF node_id \notin DOMAIN g.nodes THEN {<<>>}
    ELSE {SortedByScoreDesc(related) :
            related \in RelatedFrom(g, 0, max_depth, 0, <<>>, {node_id}, {node_id})}

\* ActivityGraph.get_related_nodes: the lists it can return
GetRelatedNodesOf(g, node_id, max_depth, min_weight) ==
    IF node_id \notin DOMAIN g.nodes THEN {<<>>}
    ELSE {SortedByScoreDesc(related) :
            related \in RelatedFrom(g, 0, max_depth, min_weight, <<>>,
                                    {node_id}, {node_id})}

\* the arguments of get_related_nodes tried: a node of the graph or a node that
\* is not in it, max_depth and min_weight
NoSuchNode == <<"file:", "/none">>
RelatedDepths == 0..2
RelatedWeights == {1, 2}

NoGraphOp == [op |-> "none", returned |-> None]
GraphFrame ==
    UNCHANGED <<termVars, browserVars, storeVars, infVars, collVars, daemonVars, gitVars, procVars,
               confVars, histVars, backlogVars, restartVars>>

GraphInit ==
    /\ graph = EmptyGraph
    /\ graph_file = Absent
    /\ graphCalls = 0
    /\ graphOp = NoGraphOp
    /\ savedGraph = EmptyGraph
    /\ graphPairs = <<>>

AddEvent(event) ==
    /\ GraphFrame
    /\ graphCalls < MaxCalls
    /\ graph' = AddEventTo(graph, event)
    /\ graphCalls' = graphCalls + 1
    /\ graphOp' = [op |-> "add_event", returned |-> None]
    /\ UNCHANGED <<graph_file, savedGraph, graphPairs>>

AddWindow(events) ==
    /\ GraphFrame
    /\ graphCalls < MaxCalls
    /\ graph' = AddWindowTo(graph, [events |-> events])
    /\ graphCalls' = graphCalls + 1
    /\ graphOp' = [op |-> "add_window", returned |-> None]
    /\ UNCHANGED <<graph_file, savedGraph, graphPairs>>

GraphSave ==
    /\ GraphFrame
    /\ graph_file' = PickleDump(graph)
    /\ savedGraph' = graph
    /\ graphOp' = [op |-> "save", returned |-> None]
    /\ UNCHANGED <<graph, graphCalls, graphPairs>>

GraphLoad ==
    /\ GraphFrame
    /\ IF graph_file = Absent
       THEN /\ graphOp' = [op |-> "load", returned |-> <<FALSE>>, replaced |-> FALSE]
            /\ UNCHANGED graph
       ELSE /\ graph' = PickleLoad(graph_file)
            /\ graphOp' = [op |-> "load", returned |-> <<TRUE>>,
                           replaced |-> (graph # PickleLoad(graph_file))]
    /\ UNCHANGED <<graph_file, graphCalls, savedGraph, graphPairs>>

GraphClear ==
    /\ GraphFrame
    /\ graph' = EmptyGraph
    /\ graphOp' = [op |-> "clear", returned |-> None]
    /\ UNCHANGED <<graph_file, graphCalls, savedGraph, graphPairs>>

\* the node synthesis of section 4.2: the nodes an event stands for, with the
\* given prefixes of command and process nodes
MappedNodes(event, command, process) ==
    CASE event.event_type \in {"file.create", "file.modify", "file.delete", "file.move"} ->
           {<<"file:", event.subject>>}
      [] event.event_type \in {"git.commit", "git.branch_switch"}
           /\ event.repository # None ->
           {<<"repo:", event.repository[1]>>}
      [] event.event_type = "browser.visit" /\ event.url # None ->
           {<<"url:", event.url[1]>>, <<"domain:", event.url[1][2]>>}
      [] event.event_type = "shell.command" /\ event.subject # <<>> ->
           {<<command, event.subject[1]>>}
      [] event.event_type \in {"process.start", "process.active"}
           /\ event.process_name # None ->
           {<<process, event.process_name[1]>>}
      [] OTHER -> {}

\* the edge synthesis of section 4.2: the nodes a window implies are those of
\* its events, for a page the domain and not the URL
ImpliedByWindow(events) ==
    UNION {{n \in MappedNodes(events[i], "cmd:", "proc:") : n[1] # "url:"} :
              i \in 1..Len(events)}

\* {u, v} -> count, with every pair of two nodes of node_ids counted once more
CountPairs(pairs, node_ids) ==
    LET both == {{u, v} : u, v \in node_ids} \ {{u} : u \in node_ids}
    IN  [e \in both \cup DOMAIN pairs |->
            Get(pairs, e, 0) + IF e \in both THEN 1 ELSE 0]

\* add_event(event), get_related_nodes(...) and add_window(window) on a graph
\* that is built from the empty graph by these calls alone
AddEventCall(event) ==
    /\ GraphFrame
    /\ graphCalls < MaxCalls
    /\ graph' = AddEventTo(graph, event)
    /\ graphCalls' = graphCalls + 1
    /\ graphOp' = [op |-> "add_event", returned |-> None, event |-> event]
    /\ UNCHANGED <<graph_file, savedGraph, graphPairs>>

AddWindowCall(events) ==
    /\ GraphFrame
    /\ graphCalls < MaxCalls
    /\ graph' = AddWindowTo(graph, [events |-> events])
    /\ graphCalls' = graphCalls + 1
    /\ graphOp' = [op |-> "add_window", returned |-> None, events |-> events]
    /\ graphPairs' = CountPairs(graphPairs, ImpliedByWindow(events))
    /\ UNCHANGED <<graph_file, savedGraph>>

GetRelatedNodes(node_id, max_depth, min_weight) ==
    /\ GraphFrame
    /\ \E result \in GetRelatedNodesOf(graph, node_id, max_depth, min_weight) :
          graphOp' = [op |-> "get_related_nodes", returned |-> result,
                      node_id |-> node_id, max_depth |-> max_depth,
                      min_weight |-> min_weight]
    /\ UNCHANGED <<graph, graph_file, graphCalls, savedGraph, graphPairs>>

GraphNext ==
    \/ \E event \in GraphEvent : AddEvent(event)
    \/ \E events \in GraphWindows : AddWindow(events)
    \/ GraphSave
    \/ GraphLoad
    \/ GraphClear

\* the calls tried: every kind of event, and the windows of a file, a command
\* and a page
CallEvents == {e \in GraphEvent : e.timestamp = 1}
CallWindows ==
    {w \in GraphWindows :
        \A i \in 1..Len(w) : w[i].event_type \in {"file.modify", "shell.command",
                                                  "browser.visit"}}

GraphCallsNext ==
    \/ \E event \in CallEvents : AddEventCall(event)
    \/ \E events \in CallWindows : AddWindowCall(events)
    \/ \E node_id \in DOMAIN graph.nodes \cup {NoSuchNode},
          max_depth \in RelatedDepths, min_weight \in RelatedWeights :
            GetRelatedNodes(node_id, max_depth, min_weight)

(***************************************************************************)
(* Claims on the activity graph                                           *)
(***************************************************************************)
EventCount(g, n) == Get(g.nodes[n], "event_count", 0)

\* C9. Graph monotonicity: a call other than clear() and load() removes no
\* node and no edge, lowers the event_count of no node and the weight of no
\* edge.
C9_GraphMonotonicity ==
    [][graphOp'.op \notin {"clear", "load"}
       => /\ \A n \in DOMAIN graph.nodes :
                n \in DOMAIN graph'.nodes /\ EventCount(graph', n) >= EventCount(graph, n)
          /\ \A e \in DOMAIN graph.edges :
                e \in DOMAIN graph'.edges /\ graph'.edges[e].weight >= graph.edges[e].weight
      ]_vars

\* C9 witness: add_window has counted a node that was there a second time and
\* raised the weight of an edge that was there.
C9_Witness ==
    /\ graphOp.op = "add_window"
    /\ \E n \in DOMAIN graph.nodes : EventCount(graph, n) >= 2
    /\ \E e \in DOMAIN graph.edges : graph.edges[e].weight >= 2

\* C10. Graph round trip: load() after save() returns true and leaves the
\* graph that was saved: its nodes, its edges, every attribute of every node
\* and every edge weight; load() without a snapshot file returns false and
\* leaves the graph as it was.
C10_GraphRoundTrip ==
    [][graphOp'.op = "load"
       => IF graph_file = Absent
          THEN graphOp'.returned = <<FALSE>> /\ graph' = graph
          ELSE /\ graphOp'.returned = <<TRUE>>
               /\ DOMAIN graph'.nodes = DOMAIN savedGraph.nodes
               /\ DOMAIN graph'.edges = DOMAIN savedGraph.edges
               /\ \A n \in DOMAIN savedGraph.nodes : graph'.nodes[n] = savedGraph.nodes[n]
               /\ \A e \in DOMAIN savedGraph.edges :
                     graph'.edges[e].weight = savedGraph.edges[e].weight
      ]_vars

\* C10 witness: a graph with a node outside every edge and an edge was saved
\* and later loaded back over a graph that differed from it.
C10_Witness ==
    /\ graphOp.op = "load" /\ graphOp.returned = <<TRUE>> /\ graphOp.replaced
    /\ graph = savedGraph
    /\ DOMAIN graph.edges # {}
    /\ \E n \in DOMAIN graph.nodes : n \notin UNION DOMAIN graph.edges

\* the window of a file, a command and a page is added to the empty graph, and
\* is added again right after it was added to the empty graph
FirstAdded ==
    /\ graph = EmptyGraph
    /\ graphOp'.op = "add_window" /\ graphOp'.events = FileCommandPage
AddedAgain ==
    /\ graphCalls = 1 /\ graphOp.op = "add_window" /\ graphOp.events = FileCommandPage
    /\ graphOp'.op = "add_window" /\ graphOp'.events = FileCommandPage
ThreeEdgesOfWeight(g, weight) ==
    /\ Cardinality(DOMAIN g.edges) = 3
    /\ \A e \in DOMAIN g.edges : g.edges[e].weight = weight

\* C22 as stated. Related by window: add_window on the empty graph with a
\* window of one file event, one shell.command event and one browser.visit
\* event leaves exactly 3 nodes and 3 edges of weight 1; the same call once
\* more raises every weight to 2.
C22_RelatedByWindow ==
    [][/\ FirstAdded => /\ Cardinality(DOMAIN graph'.nodes) = 3
                        /\ ThreeEdgesOfWeight(graph', 1)
       /\ AddedAgain => ThreeEdgesOfWeight(graph', 2)
      ]_vars

\* C22 amended. The window leaves exactly 4 nodes, the file, the command, the
\* URL and its domain, and exactly the 3 edges between the file, the command
\* and the domain, each of weight 1; the same call once more adds no node and
\* no edge and raises every weight to 2.
C22_FourNodes ==
    [][LET ends == {<<"file:", "/a">>, <<"cmd:", "make">>, <<"domain:", "x.org">>}
           all == ends \cup {<<"url:", <<"https", "x.org", "/p">> >>}
           EdgesBetweenEnds(g) ==
               DOMAIN g.edges = {{u, v} : u, v \in ends} \ {{u} : u \in ends}
       IN  /\ FirstAdded => /\ DOMAIN graph'.nodes = all
                            /\ EdgesBetweenEnds(graph') /\ ThreeEdgesOfWeight(graph', 1)
           /\ AddedAgain => /\ DOMAIN graph'.nodes = all
                            /\ EdgesBetweenEnds(graph') /\ ThreeEdgesOfWeight(graph', 2)
      ]_vars

\* C22 witness: the window was added twice to the empty graph, which has four
\* nodes and three edges of weight 2.
C22_Witness ==
    /\ graphCalls = 2 /\ graphOp.op = "add_window" /\ graphOp.events = FileCommandPage
    /\ Cardinality(DOMAIN graph.nodes) = 4
    /\ ThreeEdgesOfWeight(graph, 2)

\* C23. Edge weight: on a graph built from the empty graph by add_event and
\* add_window calls, an edge between u and v exists exactly when some added
\* window implied both, its weight is the number of add_window calls whose
\* window implied both, and add_event creates and changes no edge.
C23_EdgeWeights ==
    /\ [](/\ DOMAIN graph.edges = DOMAIN graphPairs
          /\ \A e \in DOMAIN graph.edges :
                /\ Cardinality(e) = 2
                /\ graph.edges[e].weight = graphPairs[e] /\ graphPairs[e] >= 1)
    /\ [][graphOp'.op = "add_event" => graph'.edges = graph.edges]_vars

\* C23 witness: after two windows an edge both implied has weight 2 and an
\* edge one of them implied has weight 1.
C23_Witness ==
    /\ \E e \in DOMAIN graph.edges : graph.edges[e].weight = 2
    /\ \E e \in DOMAIN graph.edges : graph.edges[e].weight = 1

\* add_event creates (with event_count 1) or updates (event_count one higher)
\* exactly the nodes of the mapping and leaves every other node as it was
SynthesizesMapped(command, process) ==
    graphOp'.op = "add_event" =>
        LET mapped == MappedNodes(graphOp'.event, command, process)
        IN  /\ DOMAIN graph'.nodes = DOMAIN graph.nodes \cup mapped
            /\ \A n \in mapped :
                  EventCount(graph', n)
                    = 1 + IF n \in DOMAIN graph.nodes THEN EventCount(graph, n) ELSE 0
            /\ \A n \in DOMAIN graph.nodes \ mapped : graph'.nodes[n] = graph.nodes[n]

RECURSIVE Within(_, _, _)
Within(S, depth, min_weight) ==
    IF depth = 0 THEN S
    ELSE Within(S \cup {v \in DOMAIN graph.nodes :
                           \E u \in S : /\ {u, v} \in DOMAIN graph.edges
                                        /\ graph.edges[{u, v}].weight >= min_weight},
                depth - 1, min_weight)

\* C25. Neighbours: get_related_nodes(n, max_depth, min_weight) returns the
\* empty list when n is not in the graph; otherwise it returns each node at
\* most once, never n, and exactly the nodes a path of at most max_depth
\* edges of weight min_weight or more leads to from n, by total_weight
\* descending.
C25_RelatedNodes ==
    graphOp.op = "get_related_nodes" =>
        LET r == graphOp.returned
        IN  IF graphOp.node_id \notin DOMAIN graph.nodes THEN r = <<>>
            ELSE /\ \A i, j \in 1..Len(r) : i # j => r[i][1] # r[j][1]
                 /\ {r[i][1] : i \in 1..Len(r)}
                      = Within({graphOp.node_id}, graphOp.max_depth, graphOp.min_weight)
                          \ {graphOp.node_id}
                 /\ \A i, j \in 1..Len(r) : i < j => r[i][2] >= r[j][2]

\* C25 witness: a call with max_depth 2 has returned two nodes, one of them
\* not a neighbour of n.
C25_Witness ==
    /\ graphOp.op = "get_related_nodes" /\ graphOp.max_depth = 2
    /\ Len(graphOp.returned) = 2
    /\ \E i \in 1..2 : {graphOp.node_id, graphOp.returned[i][1]} \notin DOMAIN graph.edges

\* the sums of the weights along the walks of d edges of weight min_weight or
\* more from n to r
RECURSIVE PathSums(_, _, _, _)
PathSums(n, r, d, min_weight) ==
    IF d = 0 THEN (IF n = r THEN {0} ELSE {})
    ELSE UNION {{s + graph.edges[{c, r}].weight : s \in PathSums(n, c, d - 1, min_weight)} :
                  c \in {c \in DOMAIN graph.nodes :
                            /\ {c, r} \in DOMAIN graph.edges
                            /\ graph.edges[{c, r}].weight >= min_weight}}

\* the sums along the breadth-first paths from n to r: the walks of the least
\* number of edges
BreadthFirstSums(n, r, max_depth, min_weight) ==
    LET d == CHOOSE d \in 1..max_depth :
                 /\ PathSums(n, r, d, min_weight) # {}
                 /\ \A e \in 1..(d - 1) : PathSums(n, r, e, min_weight) = {}
    IN  PathSums(n, r, d, min_weight)

\* C35. Neighbour weight: the total_weight get_related_nodes reports for a
\* node is the sum of the weights of the edges of the breadth-first path that
\* leads to it, and every order of iteration gives the node the same
\* total_weight.
C35_NeighbourWeight ==
    (graphOp.op = "get_related_nodes" /\ graphOp.node_id \in DOMAIN graph.nodes) =>
        LET r == graphOp.returned
        IN  /\ \A i \in 1..Len(r) :
                  r[i][2] \in BreadthFirstSums(graphOp.node_id, r[i][1],
                                               graphOp.max_depth, graphOp.min_weight)
            /\ \A other \in GetRelatedNodesOf(graph, graphOp.node_id,
                                               graphOp.max_depth, graphOp.min_weight) :
                  \A i \in 1..Len(r), j \in 1..Len(other) :
                      other[j][1] = r[i][1] => other[j][2] = r[i][2]

(***************************************************************************)
(* EVENT STORE: COLUMNS AND ITERATION  (storage/database.py)              *)
(*                                                                         *)
(* Events with the attributes insert_event writes: an optional slot (url  *)
(* stands for the nine of them), the metadata dict and the confidence in  *)
(* hundredths.  A JSON text is <<"json", dict>>; a tuple <<"tuple", x>>   *)
(* is written as the JSON array <<"list", x>>.                            *)
(***************************************************************************)
\* Event.confidence: Field(default=1.0), and "or 1.0", in hundredths
DEFAULT_CONFIDENCE == 100

\* the attributes tried, beyond those of StoreEvent; the events tried have
\* two of the ids, one of them with every choice of attributes
Attributes == {
    [url |-> None, metadata |-> <<>>, confidence |-> DEFAULT_CONFIDENCE],
    [url |-> <<"https://example.com">>, metadata |-> [referer |-> "g"], confidence |-> 95],
    [url |-> None, metadata |-> [pair |-> <<"tuple", "x">>], confidence |-> 50],
    [url |-> None, metadata |-> <<>>, confidence |-> 0] }
ColumnEvent ==
    {[id |-> p[1].id, event_type |-> p[1].event_type, source |-> p[1].source,
      timestamp |-> p[1].timestamp, url |-> p[2].url, metadata |-> p[2].metadata,
      confidence |-> p[2].confidence] :
        p \in {q \in StoreEvent \X Attributes :
                  \/ q[1].id = "id1" /\ q[1].timestamp = 0
                  \/ q[1].id # "id3" /\ q[2].confidence = DEFAULT_CONFIDENCE}}

\* json.dumps and json.loads
JsonDumps(obj) ==
    <<"json", [k \in DOMAIN obj |->
                  IF obj[k] \in Seq({"tuple", "x"}) /\ Len(obj[k]) > 0 /\ obj[k][1] = "tuple"
                  THEN <<"list">> \o Tail(obj[k]) ELSE obj[k]]>>
JsonLoads(text) == text[2]

\* the parameter list of insert_event: the row written for the event
RowOf(event) ==
    [event EXCEPT !.metadata = IF event.metadata # <<>>
                                THEN JsonDumps(event.metadata) ELSE None]

\* EventDatabase._row_to_event
RowToEvent(row) ==
    [row EXCEPT !.metadata = IF row.metadata # None THEN JsonLoads(row.metadata)
                              ELSE <<>>,
                !.confidence = IF row.confidence # 0 THEN row.confidence
                                ELSE DEFAULT_CONFIDENCE]

\* the WHERE clause iter_events builds: None is no bound
Iterated(table, start_time, end_time) ==
    {i \in 1..Len(table) :
        /\ (start_time # None => table[i].timestamp >= start_time[1])
        /\ (end_time # None => table[i].timestamp <= end_time[1])}

\* ORDER BY timestamp: every order of the rows that is ascending, rows with
\* equal timestamps in any order
OrderedAsc(table, rows) ==
    {f \in [1..Cardinality(rows) -> rows] :
        /\ \A i, j \in DOMAIN f : i # j => f[i] # f[j]
        /\ \A i, j \in DOMAIN f : i < j => table[f[i]].timestamp <= table[f[j]].timestamp}

\* the while loop of iter_events from offset on: the sequences of rows it can
\* yield, every batch being a query of its own
RECURSIVE IterFrom(_, _, _, _)
IterFrom(table, rows, batch_size, offset) ==
    IF offset >= Cardinality(rows) THEN {<<>>}
    ELSE UNION {{SubSeq(order, offset + 1, Min(offset + batch_size, Cardinality(rows)))
                   \o rest : rest \in IterFrom(table, rows, batch_size,
                                                offset + batch_size)} :
                  order \in OrderedAsc(table, rows)}

DEFAULT_BATCH_SIZE == 1000
BatchSizes == {1, DEFAULT_BATCH_SIZE}
TimeBounds == {None} \cup {<<t>> : t \in 0..MaxTime}

\* insert_event(event), the event with all its columns
InsertEventColumns(event) ==
    /\ StoreFrame
    /\ Len(events_table) < MaxStored
    /\ LET r == InsertRow(events_table, conn, RowOf(event))
       IN  /\ events_table' = r.table
           /\ dbCall' = [op |-> "insert_event", raised |-> r.raised]
           /\ dbInserted' = IF r.raised THEN dbInserted
                             ELSE (event.id :> event) @@ dbInserted
    /\ dbPrev' = NoCall
    /\ UNCHANGED conn

\* list(iter_events(start_time, end_time, batch_size))
IterEvents(start_time, end_time, batch_size) ==
    /\ StoreFrame
    /\ conn
    /\ \E rows \in IterFrom(events_table, Iterated(events_table, start_time, end_time),
                             batch_size, 0) :
          dbCall' = [op |-> "iter_events", raised |-> FALSE,
                     start_time |-> start_time, end_time |-> end_time,
                     batch_size |-> batch_size,
                     returned |-> [i \in DOMAIN rows |-> RowToEvent(events_table[rows[i]])]]
    /\ dbPrev' = NoCall
    /\ UNCHANGED <<events_table, conn, dbInserted>>

StoreColumnsNext ==
    \/ DbConnect
    \/ \E e \in ColumnEvent : InsertEventColumns(e)
    \/ \E start_time \in TimeBounds, end_time \in TimeBounds, batch_size \in BatchSizes :
          IterEvents(start_time, end_time, batch_size)

(***************************************************************************)
(* Claims on the columns and the iteration of the event store             *)
(***************************************************************************)
\* C26. Attribute round trip: every event a query of the store returns has the
\* id, event type, timestamp, source, optional slots, metadata and confidence
\* of the event insert_event was given, for every confidence in [0, 1].
C26_AttributeRoundTrip ==
    dbCall.op = "iter_events" =>
        \A i \in 1..Len(dbCall.returned) :
            /\ dbCall.returned[i].id \in DOMAIN dbInserted
            /\ dbCall.returned[i] = dbInserted[dbCall.returned[i].id]

\* the stored rows iter_events was asked for
AskedFor ==
    {k \in 1..Len(events_table) :
        /\ (dbCall.start_time # None => events_table[k].timestamp >= dbCall.start_time[1])
        /\ (dbCall.end_time # None => events_table[k].timestamp <= dbCall.end_time[1])}

\* C27. Iteration: for any stored events, also events that share a timestamp,
\* and any batch size of at least 1, iter_events(start, end, batch) yields
\* every stored event whose timestamp is within the bounds exactly once, in
\* ascending order of timestamp, and ends.
C27_Iteration ==
    dbCall.op = "iter_events" =>
        /\ Len(dbCall.returned) = Cardinality(AskedFor)
        /\ \A k \in AskedFor :
              Cardinality({i \in 1..Len(dbCall.returned) :
                              dbCall.returned[i].id = events_table[k].id}) = 1
        /\ \A i, j \in 1..Len(dbCall.returned) :
              i < j => dbCall.returned[i].timestamp <= dbCall.returned[j].timestamp

(***************************************************************************)
(* COLLECTOR TASKS  (collectors/base.py, filesystem.py, terminal.py)      *)
(*                                                                         *)
(* Two collectors run as asyncio tasks: the filesystem collector, whose   *)
(* watcher thread fills a queue that collect() drains every 0.1 s, and    *)
(* the terminal collector as the example of the collectors that poll      *)
(* every poll_interval (process and browser have the same loop).  A task  *)
(* takes one step from one await to the next.  Task.cancel() makes the    *)
(* await the task is suspended at raise CancelledError, which is not an   *)
(* Exception, so the handlers of collect() let it through to run(); a     *)
(* task cancelled before its first step ends without running run().      *)
(* An item is <<collector, n>>, the n-th thing its source produced.       *)
(* Sleeps are in tenths of a second.                                      *)
(***************************************************************************)
MaxItems == 3        \* items the sources of the collectors produce, taken together

Collectors == {"filesystem", "terminal"}
CollectorList == <<"filesystem", "terminal">>     \* Daemon.collectors
Fallible == {"filesystem"}      \* start() and stop() can raise: the observer
Nobody == "nobody"

\* asyncio.sleep(0.1), asyncio.sleep(1.0) of the filesystem collector and the
\* default shell_history_poll_interval, 60 s
Sleeps == [tick |-> 1, fs_backoff |-> 10, poll_interval |-> 600]

\* the sleep of collect() between two polls, and the one in its except branch
PollSleep(c) == IF c = "filesystem" THEN Sleeps.tick ELSE Sleeps.poll_interval
BackOffSleep(c) == IF c = "filesystem" THEN Sleeps.fs_backoff ELSE Sleeps.poll_interval

\* the event a collector makes of an item
ItemEvent(item) ==
    [id |-> item, source |-> item[1], timestamp |-> item[2],
     event_type |-> IF item[1] = "filesystem" THEN "file.modify" ELSE "shell.command",
     subject |-> IF item[1] = "filesystem" THEN "/a" ELSE <<"make", "test">>,
     repository |-> None, url |-> None, title |-> None, process_name |-> None]

\* BaseCollector.__init__; starts, stops and emitted count the calls of start()
\* and stop() that run() has made and the events it has emitted
NewCollector ==
    [running |-> FALSE, task |-> "none", cancel |-> FALSE, sleep |-> 0,
     resources |-> FALSE, starts |-> 0, stops |-> 0, emitted |-> 0,
     stop_raised |-> FALSE]

\* _handle_event that counts the event before it inserts it
HandleEventCountFirst(s, event, ioError) ==
    LET r == IF ioError THEN [table |-> s.table, raised |-> TRUE]
             ELSE InsertRow(s.table, s.open, event)
    IN  IF r.raised THEN [s EXCEPT !.count = @ + 1]
        ELSE [s EXCEPT !.table = r.table, !.count = @ + 1,
                       !.graph = AddEventTo(s.graph, event)]

\* Daemon._handle_event on s = [table, open, graph, count, escaped]: an insert
\* that raises is logged and neither counter nor graph change
HandleEvent(s, event, ioError) ==
    LET r == IF ioError THEN [table |-> s.table, raised |-> TRUE]
             ELSE InsertRow(s.table, s.open, event)
    IN  IF r.raised THEN s
        ELSE [s EXCEPT !.table = r.table, !.count = @ + 1,
                       !.graph = AddEventTo(s.graph, event)]

\* async for event in self.collect(): self.emit_event(event)
RECURSIVE EmitAll(_, _, _)
EmitAll(s, items, ioErrors) ==
    IF items = <<>> \/ s.escaped THEN s
    ELSE EmitAll(HandleEvent(s, ItemEvent(Head(items)), Head(ioErrors)),
                 Tail(items), Tail(ioErrors))

\* a queue that hands out the newest item first
EnqueueFront(queue, item) == <<item>> \o queue

\* Queue.put: the queue is first in, first out
Enqueue(queue, item) == Append(queue, item)

\* stop() without the guard "if self._observer"
StopUnguarded(col, fails) ==
    IF ~col.resources \/ fails THEN [col |-> col, raised |-> TRUE]
    ELSE [col |-> [col EXCEPT !.resources = FALSE], raised |-> FALSE]

\* FilesystemCollector.stop, TerminalCollector.stop: release what start() took
StopOf(col, fails) ==
    IF col.resources /\ fails THEN [col |-> col, raised |-> TRUE]
    ELSE [col |-> [col EXCEPT !.resources = FALSE], raised |-> FALSE]

\* the finally of run(): await self.stop(); self._running = False
Finally(col, fails) ==
    LET r == StopOf(col, fails)
    IN  [r.col EXCEPT !.stops = @ + 1, !.task = "done", !.sleep = 0, !.cancel = FALSE,
                      !.stop_raised = r.raised,
                      !.running = IF r.raised THEN @ ELSE FALSE]

\* the task is suspended at an asyncio.sleep of collect()
Sleeping(col, kind, duration) == [col EXCEPT !.task = kind, !.sleep = duration]

daemonRest == <<d_running, pid_file, data_dir, run_pc, stops, periodic>>
CollFrame == UNCHANGED <<termVars, browserVars, infVars, dbCall, dbPrev,
                         dbInserted, graphCalls, graphOp, savedGraph, graphPairs,
                         gitVars, procVars, confVars, histVars, backlogVars, restartVars>>
NoDelivery == UNCHANGED <<events_table, graph, event_count, sink>>

CollInit ==
    /\ collectors = [c \in Collectors |-> NewCollector]
    /\ col_queue = [c \in Collectors |-> <<>>]
    /\ col_made = [c \in Collectors |-> 0]
    /\ sink = <<>>
    /\ col_waiting = Nobody
    /\ col_op = [op |-> "none"]

\* the items of the queue go to the callback one after the other; an exception
\* of the callback would end the task through the finally of run()
Deliver(c, col, ioErrors, stopFails, next) ==
    LET items == col_queue[c]
        r == EmitAll([table |-> events_table, open |-> conn, graph |-> graph,
                      count |-> event_count, escaped |-> FALSE], items, ioErrors)
        col2 == [col EXCEPT !.emitted = @ + Len(items)]
    IN  /\ events_table' = r.table
        /\ graph' = r.graph
        /\ event_count' = r.count
        /\ sink' = sink \o items
        /\ col_queue' = [col_queue EXCEPT ![c] = <<>>]
        /\ collectors' = [collectors EXCEPT ![c] =
                            IF r.escaped THEN Finally(col2, stopFails)
                            ELSE Sleeping(col2, next, PollSleep(c))]

\* "while self._running:" of collect() and what follows up to the next await
LoopHead(c, col, pollFails, ioErrors, stopFails) ==
    IF ~col.running
    THEN /\ collectors' = [collectors EXCEPT ![c] = Finally(col, stopFails)]
         /\ NoDelivery /\ UNCHANGED col_queue
    ELSE IF c = "filesystem"
    THEN /\ collectors' = [collectors EXCEPT ![c] =
                              Sleeping(col, "poll_sleep", PollSleep(c))]
         /\ NoDelivery /\ UNCHANGED col_queue
    ELSE IF pollFails
    THEN /\ collectors' = [collectors EXCEPT ![c] =
                              Sleeping(col, "backoff_sleep", BackOffSleep(c))]
         /\ NoDelivery /\ UNCHANGED col_queue
    ELSE Deliver(c, col, ioErrors, stopFails, "poll_sleep")

\* the filesystem collector after its sleep of 0.1 s: the queue is drained; an
\* error on an item loses it and leads to the except branch
Drain(c, col, pollFails, ioErrors, stopFails) ==
    IF pollFails /\ col_queue[c] # <<>>
    THEN /\ collectors' = [collectors EXCEPT ![c] =
                              Sleeping(col, "backoff_sleep", BackOffSleep(c))]
         /\ col_queue' = [col_queue EXCEPT ![c] = Tail(@)]
         /\ NoDelivery
    ELSE Deliver(c, col, ioErrors, stopFails, "poll_sleep")

\* the first step of the task of run(): _running = True, start(), into collect()
Begin(c) ==
    /\ CollFrame
    /\ collectors[c].task = "pending"
    /\ UNCHANGED <<conn, graph_file, col_made, col_waiting, daemonRest>>
    /\ UNCHANGED col_op
    /\ \E startFails, pollFails, stopFails \in BOOLEAN :
       \E ioErrors \in [1..Len(col_queue[c]) -> BOOLEAN] :
          LET col == collectors[c]
              started == [col EXCEPT !.running = TRUE, !.starts = @ + 1,
                                     !.resources = TRUE]
          IN  IF col.cancel
              THEN /\ collectors' = [collectors EXCEPT ![c] =
                                        [col EXCEPT !.task = "done", !.cancel = FALSE]]
                   /\ NoDelivery /\ UNCHANGED col_queue
              ELSE IF startFails /\ c \in Fallible
              THEN /\ collectors' = [collectors EXCEPT ![c] =
                                        Finally(started, stopFails /\ c \in Fallible)]
                   /\ NoDelivery /\ UNCHANGED col_queue
              ELSE LoopHead(c, started, pollFails, ioErrors, stopFails)

\* the task wakes from a sleep of collect(): cancelled, or on with the loop
Wake(c) ==
    /\ CollFrame
    /\ collectors[c].task \in {"poll_sleep", "backoff_sleep"}
    /\ UNCHANGED <<conn, graph_file, col_made, col_waiting, daemonRest>>
    /\ UNCHANGED col_op
    /\ \E pollFails, stopFails \in BOOLEAN :
       \E ioErrors \in [1..Len(col_queue[c]) -> BOOLEAN] :
          LET col == collectors[c]
          IN  IF col.cancel
              THEN /\ collectors' = [collectors EXCEPT ![c] = Finally(col, stopFails)]
                   /\ NoDelivery /\ UNCHANGED col_queue
              ELSE IF c = "filesystem" /\ col.task = "poll_sleep"
              THEN Drain(c, col, pollFails, ioErrors, stopFails)
              ELSE LoopHead(c, col, pollFails, ioErrors, stopFails)

\* the watcher thread puts an event on the queue; the shell appends a command
Produce(c) ==
    /\ CollFrame
    /\ collectors[c].resources
    /\ col_made["filesystem"] + col_made["terminal"] < MaxItems
    /\ col_made' = [col_made EXCEPT ![c] = @ + 1]
    /\ col_queue' = [col_queue EXCEPT ![c] = Enqueue(@, <<c, col_made[c] + 1>>)]
    /\ UNCHANGED <<collectors, sink, col_waiting, col_op, storeVars, graphVars, daemonVars>>

(***************************************************************************)
(* Direct calls of the collector API, as the tests make them: the caller  *)
(* is one coroutine, so it makes no call while it awaits in stop_task.    *)
(***************************************************************************)
\* a collector nothing has started yet
NeverStarted(col) == col.task = "none" /\ col.starts = 0 /\ ~col.resources

\* what col_op keeps of a call of stop() or stop_task(): nth counts the calls
\* of op on c in a row of which the earlier ones returned normally
StopCall(op, c, raised, after) ==
    [op |-> op, collector |-> c, raised |-> raised,
     nth |-> IF col_op.op = op /\ col_op.collector = c /\ ~col_op.raised
             THEN Min(col_op.nth + 1, 2) ELSE 1,
     fresh |-> NeverStarted(collectors[c]),
     same |-> (after = collectors[c])]

HarnessFrame ==
    /\ CollFrame
    /\ run_pc = "new"
    /\ col_waiting = Nobody
    /\ NoDelivery
    /\ UNCHANGED <<conn, graph_file, col_queue, col_made, daemonRest>>

\* BaseCollector.start_task
StartTask(c) ==
    /\ HarnessFrame
    /\ collectors[c].task = "none"
    /\ collectors' = [collectors EXCEPT ![c].task = "pending"]
    /\ col_op' = [op |-> "none"]
    /\ UNCHANGED col_waiting

\* BaseCollector.stop_task up to "await self._task"
StopTask(c) ==
    /\ HarnessFrame
    /\ LET col == collectors[c]
           active == col.task \notin {"none", "done"}
           after == [col EXCEPT !.running = FALSE, !.cancel = active]
       IN  /\ collectors' = [collectors EXCEPT ![c] = after]
           /\ IF active
              THEN col_waiting' = c /\ col_op' = [op |-> "none"]
              ELSE /\ col_op' = StopCall("stop_task", c, FALSE, after)
                   /\ UNCHANGED col_waiting

\* "await self._task" returns: CancelledError is passed over, an exception of
\* the task is raised to the caller
StopTaskReturn ==
    /\ CollFrame
    /\ col_waiting # Nobody
    /\ collectors[col_waiting].task = "done"
    /\ col_waiting' = Nobody
    /\ col_op' = [StopCall("stop_task", col_waiting,
                           collectors[col_waiting].stop_raised, collectors[col_waiting])
                  EXCEPT !.nth = 1, !.fresh = FALSE]
    /\ NoDelivery
    /\ UNCHANGED <<conn, graph_file, collectors, col_queue, col_made, daemonRest>>

\* start() called on a collector that has no task running
DirectStart(c) ==
    /\ HarnessFrame
    /\ collectors[c].task \in {"none", "done"}
    /\ collectors' = [collectors EXCEPT ![c].resources = TRUE]
    /\ col_op' = [op |-> "none"]
    /\ UNCHANGED col_waiting

\* stop() called on a collector that has no task running
DirectStop(c) ==
    /\ HarnessFrame
    /\ collectors[c].task \in {"none", "done"}
    /\ \E fails \in BOOLEAN :
          LET r == StopOf(collectors[c], fails /\ c \in Fallible)
          IN  /\ collectors' = [collectors EXCEPT ![c] = r.col]
              /\ col_op' = StopCall("stop", c, r.raised, r.col)
    /\ UNCHANGED col_waiting

CollectorNext ==
    \/ \E c \in Collectors : StartTask(c)
    \/ \E c \in Collectors : StopTask(c)
    \/ StopTaskReturn
    \/ \E c \in Collectors : DirectStart(c)
    \/ \E c \in Collectors : DirectStop(c)
    \/ \E c \in Collectors : Begin(c)
    \/ \E c \in Collectors : Wake(c)
    \/ \E c \in Collectors : Produce(c)

(***************************************************************************)
(* Claims on the collector tasks                                          *)
(***************************************************************************)
\* C13. Collector lifecycle: a collector that has emitted an event
\* has had start() called, and a collector whose task has ended, for whatever
\* reason, has had stop() called exactly once and is not running.
C13_LifecycleAnyEnd ==
    \A c \in Collectors :
        /\ collectors[c].emitted > 0 => collectors[c].starts = 1
        /\ collectors[c].task = "done"
             => collectors[c].stops = 1 /\ ~collectors[c].running

\* C15. Produce-error isolation: an error in a poll leaves the
\* task of the collector in a back-off sleep as long as the sleep between two
\* of its polls, every other collector and the daemon as they were.
C15_BackOffIsPollInterval ==
    [][\A c \in Collectors :
          collectors'[c].task = "backoff_sleep" /\ collectors[c].task # "backoff_sleep"
          => /\ collectors'[c].running
             /\ collectors'[c].sleep = PollSleep(c)
             /\ \A d \in Collectors \ {c} : collectors'[d] = collectors[d]
             /\ UNCHANGED daemonRest]_vars

StopIds == {"caller", "finally"}
Periodic == {"save", "status"}
StartFailures == {"none", "mkdir", "connect"}

\* a start() that writes the PID file before it opens the store
StartPidFirst(d, failure) ==
    IF failure = "mkdir" THEN [d EXCEPT !.raised = TRUE]
    ELSE IF failure = "connect"
    THEN [d EXCEPT !.data_dir = TRUE, !.pid_file = TRUE, !.raised = TRUE]
    ELSE [d EXCEPT !.data_dir = TRUE, !.conn = TRUE, !.pid_file = TRUE,
                   !.running = TRUE,
                   !.graph = IF d.graph_file = Absent THEN @
                             ELSE PickleLoad(d.graph_file)]

\* Daemon.start on d = [data_dir, conn, graph, graph_file, pid_file, running,
\* raised]: ensure_data_dir, connect, load, _write_pid_file, _running = True
StartOf(d, failure) ==
    IF failure = "mkdir" THEN [d EXCEPT !.raised = TRUE]
    ELSE IF failure = "connect" THEN [d EXCEPT !.data_dir = TRUE, !.raised = TRUE]
    ELSE [d EXCEPT !.data_dir = TRUE, !.conn = TRUE, !.pid_file = TRUE,
                   !.running = TRUE,
                   !.graph = IF d.graph_file = Absent THEN @
                             ELSE PickleLoad(d.graph_file)]

\* the for loop of Daemon.stop from the k-th collector on, up to the first
\* stop_task that has a task to await, or to "cleanup" past the loop
RECURSIVE StopFrom(_, _, _)

\* a stop() that lets the exception of a stop_task end it
AfterStopTaskAbort(k, cols, log, raised) ==
    IF raised
    THEN [pc |-> "aborted", k |-> 0, cols |-> cols,
          log |-> Append(log, <<"stop_task", CollectorList[k], "raised">>)]
    ELSE StopFrom(k + 1, cols, Append(log, <<"stop_task", CollectorList[k], "ok">>))

\* a stop_task that sets _running and leaves the task alone
StopFromNoCancel(k, cols, log) ==
    IF k > Len(CollectorList)
    THEN [pc |-> "cleanup", k |-> 0, cols |-> cols, log |-> log]
    ELSE LET c == CollectorList[k]
             active == cols[c].task \notin {"none", "done"}
             after == [cols EXCEPT ![c].running = FALSE]
         IN  IF active THEN [pc |-> "await", k |-> k, cols |-> after, log |-> log]
             ELSE StopFrom(k + 1, after, Append(log, <<"stop_task", c, "ok">>))

\* stop_task of the k-th collector has returned or raised: the exception is
\* logged and the loop goes on
AfterStopTask(k, cols, log, raised) ==
    StopFrom(k + 1, cols,
             Append(log, <<"stop_task", CollectorList[k],
                           IF raised THEN "raised" ELSE "ok">>))

\* a stop_task that sets _running and returns: the task is neither cancelled
\* nor awaited
StopFromNoAwait(k, cols, log) ==
    [pc |-> "cleanup", k |-> 0,
     cols |-> [c \in Collectors |->
                 IF \E j \in k..Len(CollectorList) : CollectorList[j] = c
                 THEN [cols[c] EXCEPT !.running = FALSE] ELSE cols[c]],
     log |-> log \o [j \in 1..(Len(CollectorList) + 1 - k) |->
                        <<"stop_task", CollectorList[k + j - 1], "ok">>]]

StopFrom(k, cols, log) ==
    IF k > Len(CollectorList)
    THEN [pc |-> "cleanup", k |-> 0, cols |-> cols, log |-> log]
    ELSE LET c == CollectorList[k]
             active == cols[c].task \notin {"none", "done"}
             after == [cols EXCEPT ![c].running = FALSE, ![c].cancel = active]
         IN  IF active THEN [pc |-> "await", k |-> k, cols |-> after, log |-> log]
             ELSE AfterStopTask(k, after, log, FALSE)

DaemonFrame ==
    /\ CollFrame
    /\ UNCHANGED <<col_queue, col_made, sink, col_waiting, col_op>>

DaemonInit ==
    /\ event_count = 0
    /\ d_running = FALSE
    /\ pid_file = FALSE
    /\ data_dir = FALSE
    /\ run_pc = "new"
    /\ stops = [i \in StopIds |-> [pc |-> "idle", k |-> 0, log |-> <<>>]]
    /\ periodic = [t \in Periodic |-> "none"]

\* Daemon.start(), called by run() or by a caller of its own; run() goes on
\* to create the tasks and awaits them in gather
DaemonStart(via, failure) ==
    /\ DaemonFrame
    /\ run_pc = "new"
    /\ LET d == StartOf([data_dir |-> data_dir, conn |-> conn, graph |-> graph,
                         graph_file |-> graph_file, pid_file |-> pid_file,
                         running |-> d_running, raised |-> FALSE], failure)
           launched == ~d.raised /\ via = "run"
       IN  /\ data_dir' = d.data_dir
           /\ conn' = d.conn
           /\ graph' = d.graph
           /\ pid_file' = d.pid_file
           /\ d_running' = d.running
           /\ run_pc' = IF d.raised THEN "raised"
                        ELSE IF via = "run" THEN "gather" ELSE "started"
           /\ collectors' = IF launched
                            THEN [c \in Collectors |->
                                    [collectors[c] EXCEPT !.task = "pending"]]
                            ELSE collectors
           /\ periodic' = IF launched THEN [t \in Periodic |-> "sleeping"]
                          ELSE periodic
    /\ UNCHANGED <<events_table, graph_file, event_count, stops>>

\* what a call of Daemon.stop() does up to its next await, given the point r
\* its loop has reached: past the loop it saves the graph, closes the store
\* and removes the PID file
Shutdown(i, r) ==
    /\ collectors' = r.cols
    /\ d_running' = FALSE
    /\ IF r.pc = "cleanup"
       THEN /\ graph_file' = PickleDump(graph)
            /\ conn' = FALSE
            /\ pid_file' = FALSE
            /\ stops' = [stops EXCEPT ![i] =
                            [pc |-> "done", k |-> 0,
                             log |-> r.log \o << <<"save">>, <<"close">>, <<"unlink">> >>]]
       ELSE /\ stops' = [stops EXCEPT ![i] = [pc |-> r.pc, k |-> r.k, log |-> r.log]]
            /\ UNCHANGED <<graph_file, conn, pid_file>>
    /\ run_pc' = IF i # "finally" THEN run_pc
                 ELSE IF r.pc \in {"cleanup", "aborted"} THEN "returned" ELSE "finally"
    /\ UNCHANGED <<events_table, graph, event_count, data_dir, periodic>>

\* a task gather awaits has ended with an exception
TaskFailed == \E c \in Collectors :
                 collectors[c].task = "done" /\ collectors[c].stop_raised
AllTasksDone ==
    /\ \A c \in Collectors : collectors[c].task = "done"
    /\ \A t \in Periodic : periodic[t] = "done"

\* Daemon.stop() is called: by the task of the signal handler once the tasks
\* of run() have begun, or by the caller of start()
StopCalled ==
    /\ DaemonFrame
    /\ stops["caller"].pc = "idle"
    /\ \/ run_pc = "started"
       \/ /\ run_pc = "gather"
          /\ \A c \in Collectors : collectors[c].task # "pending"
    /\ Shutdown("caller", StopFrom(1, collectors, <<>>))

\* gather returns or raises and the finally of run() calls Daemon.stop()
RunFinally ==
    /\ DaemonFrame
    /\ run_pc = "gather"
    /\ \A c \in Collectors : collectors[c].task # "pending"
    /\ AllTasksDone \/ TaskFailed
    /\ Shutdown("finally", StopFrom(1, collectors, <<>>))

\* the task a stop_task of Daemon.stop() awaits has ended
StopResume(i) ==
    /\ DaemonFrame
    /\ stops[i].pc = "await"
    /\ collectors[CollectorList[stops[i].k]].task = "done"
    /\ Shutdown(i, AfterStopTask(stops[i].k, collectors, stops[i].log,
                                 collectors[CollectorList[stops[i].k]].stop_raised))

\* a _periodic_save that pickles the graph in the middle of an add_event: the
\* event_count of every node is raised and its last_seen is still the old one
PeriodicWakeTorn(t) ==
    /\ DaemonFrame
    /\ periodic[t] = "sleeping"
    /\ graph_file' = IF t = "save"
                     THEN PickleDump([graph EXCEPT !.nodes =
                             [n \in DOMAIN graph.nodes |->
                                 [graph.nodes[n] EXCEPT !.event_count = @ + 1]]])
                     ELSE graph_file
    /\ periodic' = [periodic EXCEPT ![t] = IF d_running THEN "sleeping" ELSE "done"]
    /\ UNCHANGED <<events_table, conn, graph, collectors, event_count, d_running,
                   pid_file, data_dir, run_pc, stops>>

\* _periodic_save and _status_reporter wake from their sleep: the graph is
\* saved, or the status logged, before _running is looked at again
PeriodicWake(t) ==
    /\ DaemonFrame
    /\ periodic[t] = "sleeping"
    /\ graph_file' = IF t = "save" THEN PickleDump(graph) ELSE graph_file
    /\ periodic' = [periodic EXCEPT ![t] = IF d_running THEN "sleeping" ELSE "done"]
    /\ UNCHANGED <<events_table, conn, graph, collectors, event_count, d_running,
                   pid_file, data_dir, run_pc, stops>>

DaemonNext ==
    \/ \E via \in {"run", "direct"}, failure \in StartFailures : DaemonStart(via, failure)
    \/ StopCalled
    \/ RunFinally
    \/ \E i \in StopIds : StopResume(i)
    \/ \E t \in Periodic : PeriodicWake(t)
    \/ \E c \in Collectors : Begin(c)
    \/ \E c \in Collectors : Wake(c)
    \/ \E c \in Collectors : Produce(c)


(***************************************************************************)
(* Claims on the daemon                                                   *)
(***************************************************************************)
\* the items a step has handed to the sink
Delivered == SubSeq(sink', Len(sink) + 1, Len(sink'))

\* the events of a sequence of items that the step has stored, in order
RECURSIVE StoredOf(_, _)
StoredOf(items, table) ==
    IF items = <<>> THEN <<>>
    ELSE (IF \E r \in 1..Len(table) : table[r].id = Head(items)
          THEN <<ItemEvent(Head(items))>> ELSE <<>>) \o StoredOf(Tail(items), table)

\* C11. Sink semantics: the counter is the number of rows of the store and the
\* graph holds exactly the stored events; a step that hands events to the
\* sink appends the events whose insert succeeded to the store, in order,
\* raises the counter by one for each of them and leaves the emitting
\* collector in the sleep of its loop, whatever inserts failed.
C11_SinkSemantics ==
    /\ [](/\ event_count = Len(events_table)
          /\ graph = AddEventsTo(EmptyGraph, events_table))
    /\ [][sink' # sink
          => /\ events_table' = events_table \o StoredOf(Delivered, events_table')
             /\ event_count' = event_count + Len(StoredOf(Delivered, events_table'))
             /\ collectors'[Delivered[1][1]].task = "poll_sleep"
             /\ collectors'[Delivered[1][1]].emitted
                  = collectors[Delivered[1][1]].emitted + Len(Delivered)]_vars

\* C11 witness: of two events handed to the sink in one poll the first was
\* dropped and the second stored and counted.
C11_Witness ==
    /\ sink = << <<"terminal", 1>>, <<"terminal", 2>> >>
    /\ events_table = <<ItemEvent(<<"terminal", 2>>)>>
    /\ event_count = 1
    /\ collectors["terminal"].task = "poll_sleep"

\* C12. Shutdown sequence: a call of Daemon.stop() that has ended has called
\* stop_task of every collector in turn, whether or not one of them raised,
\* then saved the graph, closed the store and removed the PID file, in that
\* order; then no collector task is left, no collector and not the daemon is
\* running, the store is closed, the PID file gone and the graph file holds
\* the graph.
C12_ShutdownSequence ==
    \A i \in StopIds :
        /\ stops[i].pc # "aborted"
        /\ stops[i].pc = "done"
             => /\ Len(stops[i].log) = Len(CollectorList) + 3
                /\ \A k \in 1..Len(CollectorList) :
                      /\ stops[i].log[k][1] = "stop_task"
                      /\ stops[i].log[k][2] = CollectorList[k]
                /\ SubSeq(stops[i].log, Len(CollectorList) + 1, Len(CollectorList) + 3)
                     = << <<"save">>, <<"close">>, <<"unlink">> >>
                /\ \A c \in Collectors :
                      collectors[c].task \in {"none", "done"} /\ ~collectors[c].running
                /\ ~d_running /\ ~conn /\ ~pid_file
                /\ graph_file = PickleDump(graph)

\* C12 witness: the stop() of the signal handler has ended; stopping the
\* filesystem collector raised, the terminal collector, which had emitted an
\* event, was stopped after it.
C12_Witness ==
    /\ stops["caller"].pc = "done"
    /\ stops["caller"].log[1] = <<"stop_task", "filesystem", "raised">>
    /\ stops["caller"].log[2] = <<"stop_task", "terminal", "ok">>
    /\ collectors["terminal"].emitted = 1 /\ collectors["terminal"].stops = 1
    /\ event_count = 1

\* shutdown has begun under a run() that has launched its tasks
ShutdownBegun ==
    /\ run_pc \in {"gather", "finally"}
    /\ \E i \in StopIds : stops[i].pc # "idle"

\* run() and every stop() called have returned, every collector task has
\* ended after one call of stop()
ShutdownEnded ==
    /\ run_pc = "returned"
    /\ \A i \in StopIds : stops[i].pc \in {"idle", "done"}
    /\ \A c \in Collectors : collectors[c].task = "done" /\ collectors[c].stops = 1
    /\ \A t \in Periodic : periodic[t] = "done"

C16_PerCollectorOrder ==
    /\ \A i, j \in 1..Len(sink) :
          i < j /\ sink[i][1] = sink[j][1] => sink[i][2] < sink[j][2]
    /\ \A i, j \in 1..Len(events_table) :
          i < j /\ events_table[i].source = events_table[j].source
          => events_table[i].id[2] < events_table[j].id[2]

\* C16 witness: two events of the filesystem collector have reached the
\* store with an event of the terminal collector between them.
C16_Witness ==
    /\ Len(events_table) = 3
    /\ events_table[1].source = "filesystem" /\ events_table[2].source = "terminal"
    /\ events_table[3].source = "filesystem"

\* the graphs after each whole number of the sink calls that stored their
\* event (a sink call whose insert failed leaves the graph as it was)
Snapshots == {AddEventsTo(EmptyGraph, SubSeq(events_table, 1, k)) :
                 k \in 0..Len(events_table)}

\* C32. Snapshot consistency: the graph file holds the graph as it was after a
\* whole number of completed sink calls, and a step that writes it, of the
\* periodic save or of shutdown, hands nothing to the sink and writes the
\* whole graph of that moment.
C32_SnapshotConsistency ==
    /\ [](graph_file # Absent => PickleLoad(graph_file) \in Snapshots)
    /\ [][graph_file' # graph_file
          => /\ sink' = sink /\ graph' = graph
             /\ graph_file' = PickleDump(graph)
             /\ graph = AddEventsTo(EmptyGraph, events_table)]_vars

\* C32 witness: the periodic save wrote the graph between two sink calls of
\* different collectors, before any shutdown: the file holds the first event
\* and not the second.
C32_Witness ==
    /\ \A i \in StopIds : stops[i].pc = "idle"
    /\ Len(events_table) = 2
    /\ events_table[1].source # events_table[2].source
    /\ graph_file # Absent
    /\ PickleLoad(graph_file) = AddEventsTo(EmptyGraph, SubSeq(events_table, 1, 1))

\* stop_task of the collector has returned to a call of Daemon.stop()
StopTaskReturned(c) ==
    \E i \in StopIds : \E k \in 1..Len(stops[i].log) :
        stops[i].log[k][1] = "stop_task" /\ stops[i].log[k][2] = c

\* a call of Daemon.stop() has closed the event store
StoreClosedByStop == ~conn /\ \E i \in StopIds : stops[i].pc = "done"

\* C38. No event after shutdown: once a call of Daemon.stop() has closed the
\* event store no step hands an event to the sink, and no step hands the sink
\* an event of a collector whose stop_task has returned.
C38_NoEventAfterShutdown ==
    [][/\ StoreClosedByStop => sink' = sink
       /\ \A c \in Collectors :
             StopTaskReturned(c) => \A j \in (Len(sink) + 1)..Len(sink') : sink'[j][1] # c
      ]_vars

\* C38 witness: stop() has closed the store after both collectors had emitted,
\* and an item that a source produced is still in the queue of its collector,
\* never handed to the sink.
C38_Witness ==
    /\ StoreClosedByStop
    /\ \A c \in Collectors : collectors[c].emitted > 0 /\ StopTaskReturned(c)
    /\ \E c \in Collectors : col_queue[c] # <<>>

\* a call of Daemon.stop() has completed: graph saved, store closed, PID file
\* removed
StopCompleted == \E i \in StopIds : stops[i].pc = "done"

\* the step runs the cleanup of a call of Daemon.stop(): graph.save(),
\* database.close(), _remove_pid_file()
CleanupRuns == \E j \in StopIds : stops[j].pc # "done" /\ stops'[j].pc = "done"

\* the step is _periodic_save calling graph.save() for the last time
LastPeriodicSave == periodic["save"] = "sleeping" /\ periodic'["save"] = "done"

\* C39. Shutdown is final: after a call of Daemon.stop() has completed, the
\* stop() of the signal handler while run() awaits its tasks included, the
\* daemon writes no graph snapshot and removes no PID file any more.
C39_ShutdownFinal ==
    [][StopCompleted
         => /\ graph_file' = graph_file
            /\ ~LastPeriodicSave
            /\ ~CleanupRuns]_vars

\* C18. Fatal startup: when start() has raised for the data directory or the
\* store, no collector task and no periodic task has been launched, no PID
\* file written, the store is not open and the daemon is not running.
C18_FatalStartup ==
    run_pc = "raised"
    => /\ \A c \in Collectors : collectors[c] = NewCollector
       /\ \A t \in Periodic : periodic[t] = "none"
       /\ ~pid_file /\ ~d_running /\ ~conn

\* C18 witness: start() raised when it opened the store, the data directory
\* made.
C18_Witness == run_pc = "raised" /\ data_dir


(***************************************************************************)
(* GIT COLLECTOR  (fortuna_prismatica/collectors/git.py)                   *)
(***************************************************************************)
Repos == {"/r", "/s"}
Branches == {"main", "dev"}
LOG_LIMIT == 10      \* "-n", "10"
\* heads: the number of commits on the line of history HEAD is at; 1 new
\* commit, LOG_LIMIT new commits and more than LOG_LIMIT can be made
Heads == {1, 2, LOG_LIMIT + 2}

\* the repositories that can be under the watch paths
Worktree ==
    [path : {"/r"}, branch : Branches, head : Heads]
        \cup [path : {"/s"}, branch : Branches, head : {1}]

\* the git calls of one repository in one pass, and those of them that fail
GitCalls == {"branch", "head", "log"}
GitFailures == {{}} \cup {{c} : c \in GitCalls}

\* a commit: its 40-character hash, of which the first 12 characters tell
\* the commits apart, and the commit time
FullHash(n) == <<n, "rest">>
Commit(n) == [hash |-> FullHash(n), time |-> n]

\* hash[:12]
Abbrev(hash) == hash[1]

\* _run_git_command: the output, None when the command failed
RunGitCommand(output, failed) == IF failed THEN None ELSE <<output>>

\* _find_repositories: the repositories under the watch paths, in the order
\* the directories were listed
FindRepositories(trees) ==
    Orders(SetToSeq({repo \in Repos : trees[repo] # None}))

\* _get_repo_state: branch and head_commit of the state
GetRepoState(worktree, failures) ==
    [branch |-> RunGitCommand(worktree.branch, "branch" \in failures),
     head_commit |-> LET head == RunGitCommand(FullHash(worktree.head),
                                               "head" \in failures)
                     IN  IF head = None THEN None ELSE <<Abbrev(head[1])>>]

\* git log --format=%H|%s|%an|%ci -n 10 since_commit..HEAD: the commits of
\* HEAD that since_commit does not have, the newest first, LOG_LIMIT at most
GitLog(worktree, since_commit) ==
    LET count == IF since_commit < worktree.head
                 THEN Min(worktree.head - since_commit, LOG_LIMIT) ELSE 0
    IN  [i \in 1..count |-> Commit(worktree.head - i + 1)]

\* _get_recent_commits
GetRecentCommits(worktree, since_commit, failed) ==
    LET output == RunGitCommand(GitLog(worktree, since_commit), failed)
    IN  IF output = None THEN <<>>
        ELSE [i \in DOMAIN output[1] |->
                [hash |-> Abbrev(output[1][i].hash), time |-> output[1][i].time]]

\* _create_commit_event
CreateCommitEvent(repo_path, branch, commit) ==
    [event_type |-> "git.commit", subject |-> <<commit.hash>>,
     subject_secondary |-> None, repository |-> repo_path, branch |-> branch,
     commit_time |-> <<commit.time>>]

\* _create_branch_event
CreateBranchEvent(repo_path, old_branch, new_branch) ==
    [event_type |-> "git.branch_switch", subject |-> <<new_branch>>,
     subject_secondary |-> old_branch, repository |-> repo_path,
     branch |-> new_branch, commit_time |-> None]

\* dict.get("branch") and dict.get("head_commit") of _repo_states.get(repo, {})
StateGet(state, key) ==
    IF state = None THEN None
    ELSE IF key = "branch" THEN state[1].branch ELSE state[1].head_commit

\* collect(): like RepoEvents, were a branch event made without a branch on record
RepoEventsUnseeded(repo_str, worktree, previous_state, failures) ==
    LET current_state == GetRepoState(worktree, failures)
        old_branch == StateGet(previous_state, "branch")
        new_branch == current_state.branch
    IN  IF new_branch # None /\ old_branch # new_branch
        THEN <<CreateBranchEvent(repo_str, old_branch, new_branch[1])>>
        ELSE <<>>

\* collect(): the body of "for repo in repos", the events it yields
RepoEvents(repo_str, worktree, previous_state, failures) ==
    LET current_state == GetRepoState(worktree, failures)
        old_branch == StateGet(previous_state, "branch")
        new_branch == current_state.branch
        old_head == StateGet(previous_state, "head_commit")
        new_head == current_state.head_commit
        commits == IF old_head # None /\ new_head # None /\ old_head # new_head
                   THEN GetRecentCommits(worktree, old_head[1], "log" \in failures)
                   ELSE <<>>
    IN  (IF old_branch # None /\ new_branch # None /\ old_branch # new_branch
         THEN <<CreateBranchEvent(repo_str, old_branch, new_branch[1])>>
         ELSE <<>>)
        \o [i \in DOMAIN commits |->
              CreateCommitEvent(repo_str,
                                IF new_branch = None THEN "unknown" ELSE new_branch[1],
                                commits[i])]

NoGitPoll == [done |-> FALSE, repos |-> <<>>, failures |-> <<>>, events |-> <<>>]

GitFrame ==
    UNCHANGED <<termVars, browserVars, storeVars, infVars, graphVars, collVars,
                daemonVars, procVars, confVars, histVars, backlogVars, restartVars>>

GitInit ==
    /\ worktrees = [repo \in Repos |-> None]
    /\ repo_states = [repo \in Repos |-> None]
    /\ known_repos = {}
    /\ gitRunning = FALSE
    /\ gitPoll = NoGitPoll

\* git init, git clone: a repository appears under a watch path
RepoCreated(worktree) ==
    /\ worktrees[worktree.path] = None
    /\ worktrees' = [worktrees EXCEPT ![worktree.path] = <<worktree>>]
    /\ gitPoll' = NoGitPoll
    /\ UNCHANGED <<repo_states, known_repos, gitRunning>>
    /\ GitFrame

\* the repository is moved away or deleted
RepoRemoved(repo) ==
    /\ worktrees[repo] # None
    /\ worktrees' = [worktrees EXCEPT ![repo] = None]
    /\ gitPoll' = NoGitPoll
    /\ UNCHANGED <<repo_states, known_repos, gitRunning>>
    /\ GitFrame

\* git checkout: another branch at the same commit
Checkout(repo, branch) ==
    /\ worktrees[repo] # None
    /\ worktrees[repo][1].branch # branch
    /\ worktrees' = [worktrees EXCEPT ![repo] = <<[@[1] EXCEPT !.branch = branch]>>]
    /\ gitPoll' = NoGitPoll
    /\ UNCHANGED <<repo_states, known_repos, gitRunning>>
    /\ GitFrame

\* git commit, pull, merge: HEAD moves forward; git reset: HEAD moves back
MoveHead(repo, head) ==
    /\ worktrees[repo] # None
    /\ worktrees[repo][1].head # head
    /\ [worktrees[repo][1] EXCEPT !.head = head] \in Worktree
    /\ worktrees' = [worktrees EXCEPT ![repo] = <<[@[1] EXCEPT !.head = head]>>]
    /\ gitPoll' = NoGitPoll
    /\ UNCHANGED <<repo_states, known_repos, gitRunning>>
    /\ GitFrame

\* run() up to collect(): _running = True, then start()
GitStart ==
    /\ ~gitRunning
    /\ gitRunning' = TRUE
    /\ \E repos \in FindRepositories(worktrees) :
       \E failures \in [{repos[i] : i \in DOMAIN repos} -> GitFailures] :
          /\ repo_states' =
                [repo \in Repos |->
                    IF repo \in DOMAIN failures
                    THEN <<GetRepoState(worktrees[repo][1], failures[repo])>>
                    ELSE repo_states[repo]]
          /\ known_repos' = known_repos \cup DOMAIN failures
    /\ gitPoll' = NoGitPoll
    /\ UNCHANGED worktrees
    /\ GitFrame

\* run() after collect(): stop(), _running = False
GitStop ==
    /\ gitRunning
    /\ gitRunning' = FALSE
    /\ repo_states' = [repo \in Repos |-> None]
    /\ known_repos' = {}
    /\ gitPoll' = NoGitPoll
    /\ UNCHANGED worktrees
    /\ GitFrame

\* collect(): one pass of "while self._running"
GitCollect ==
    /\ gitRunning
    /\ \E repos \in FindRepositories(worktrees) :
       \E failures \in [{repos[i] : i \in DOMAIN repos} -> GitFailures] :
          /\ gitPoll' =
                [done |-> TRUE, repos |-> repos, failures |-> failures,
                 events |->
                    Flatten([i \in DOMAIN repos |->
                        RepoEvents(repos[i], worktrees[repos[i]][1],
                                   repo_states[repos[i]], failures[repos[i]])])]
          /\ repo_states' =
                [repo \in Repos |->
                    IF repo \in DOMAIN failures
                    THEN <<GetRepoState(worktrees[repo][1], failures[repo])>>
                    ELSE repo_states[repo]]
          /\ known_repos' = known_repos \cup DOMAIN failures
    /\ UNCHANGED <<worktrees, gitRunning>>
    /\ GitFrame

GitNext ==
    \/ \E worktree \in Worktree : RepoCreated(worktree)
    \/ \E repo \in Repos : RepoRemoved(repo)
    \/ \E repo \in Repos, branch \in Branches : Checkout(repo, branch)
    \/ \E repo \in Repos, head \in Heads : MoveHead(repo, head)
    \/ GitStart
    \/ GitStop
    \/ GitCollect

\* the events of one kind that a pass yielded for a repository, in order
PollEvents(poll, repo, event_type) ==
    SelectSeq(poll.events, LAMBDA e : e.repository = repo /\ e.event_type = event_type)

\* the repository was among those the pass found
Polled(poll, repo) == \E i \in DOMAIN poll.repos : poll.repos[i] = repo

\* what the repository has for the call (its branch, its head), if the pass
\* found the repository and the call did not fail
Current(poll, repo, call, value) ==
    IF Polled(poll, repo) /\ call \notin poll.failures[repo] THEN <<value>> ELSE None

C29_Commits ==
    [][gitPoll'.done =>
        \A repo \in Repos :
           LET old_head == StateGet(repo_states[repo], "head_commit")
               new_head == IF worktrees[repo] = None THEN None
                           ELSE Current(gitPoll', repo, "head", worktrees[repo][1].head)
               new_commits == IF old_head = None \/ new_head = None THEN {}
                              ELSE (old_head[1] + 1)..new_head[1]
               commits == PollEvents(gitPoll', repo, "git.commit")
           IN  (/\ old_head # None /\ new_head # None /\ old_head # new_head
                /\ "log" \notin gitPoll'.failures[repo])
               => /\ Len(commits) = Min(Cardinality(new_commits), LOG_LIMIT)
                  /\ \A i \in DOMAIN commits : commits[i].subject[1] \in new_commits
                  /\ \A i, j \in DOMAIN commits :
                        i < j => commits[i].commit_time[1] < commits[j].commit_time[1]
    ]_vars

(***************************************************************************)
(* PROCESS COLLECTOR  (collectors/process.py)                              *)
(***************************************************************************)
Pids == {1, 2}
TRACK_PERCENT == 1       \* cpu > 1.0 or memory > 1.0
ACTIVE_PERCENT == 5      \* cpu_percent > 5.0

\* the processes the table can hold under a pid: an editor, a process of no
\* category at several loads, a process of the noise list; loads in percent
Process ==
    [name : {"code"}, cpu_percent : {0, 6}, memory_percent : {0}]
        \cup [name : {"foo"}, cpu_percent : {0, 2, 6}, memory_percent : {0}]
        \cup [name : {"foo"}, cpu_percent : {0}, memory_percent : {2}]
        \cup [name : {"systemd"}, cpu_percent : {6}, memory_percent : {0}]

IGNORE_PROCESSES == {"systemd"}

\* _categorize_process
CategorizeProcess(name) == IF name = "code" THEN <<"editor">> ELSE None

\* _should_track
ShouldTrack(proc_info) ==
    /\ proc_info.name \notin IGNORE_PROCESSES
    /\ \/ CategorizeProcess(proc_info.name) # None
       \/ proc_info.cpu_percent > TRACK_PERCENT
       \/ proc_info.memory_percent > TRACK_PERCENT

\* _get_process_info of the process with this pid
GetProcessInfo(pid, process) ==
    [pid |-> pid, name |-> process.name, cpu_percent |-> process.cpu_percent,
     memory_percent |-> process.memory_percent]

\* _create_process_event
CreateProcessEvent(event_type, proc_info) ==
    [event_type |-> event_type, subject |-> proc_info.name,
     process_id |-> proc_info.pid, cpu_percent |-> proc_info.cpu_percent]

\* psutil.process_iter(): the pids of the table in ascending order
RECURSIVE ProcessIter(_, _)
ProcessIter(table, pid) ==
    IF pid \notin Pids THEN <<>>
    ELSE (IF table[pid] = None THEN <<>> ELSE <<pid>>) \o ProcessIter(table, pid + 1)

\* collect(): ended_pids = self._seen_pids - current_pids
EndedPids(seen, current_pids) == seen \ current_pids

\* collect(): the events of "for proc in psutil.process_iter()" for one process
ScanEvents(seen, proc_info) ==
    IF ~ShouldTrack(proc_info) THEN <<>>
    ELSE IF proc_info.pid \notin seen
    THEN <<CreateProcessEvent("process.start", proc_info)>>
    ELSE IF proc_info.cpu_percent > ACTIVE_PERCENT
    THEN <<CreateProcessEvent("process.active", proc_info)>>
    ELSE <<>>

NoProcPoll == [done |-> FALSE, scanned |-> {}, current_pids |-> {}, events |-> <<>>]

ProcFrame ==
    UNCHANGED <<termVars, browserVars, storeVars, infVars, graphVars, collVars,
                daemonVars, gitVars, confVars, histVars, backlogVars, restartVars>>

ProcInit ==
    /\ process_table = [pid \in Pids |-> None]
    /\ active_processes = [pid \in Pids |-> None]
    /\ seen_pids = {}
    /\ procRunning = FALSE
    /\ procPoll = NoProcPoll
    /\ procOpen = {}

\* a process starts under a free pid
Spawn(pid, process) ==
    /\ process_table[pid] = None
    /\ process_table' = [process_table EXCEPT ![pid] = <<process>>]
    /\ procPoll' = NoProcPoll
    /\ UNCHANGED <<active_processes, seen_pids, procRunning, procOpen>>
    /\ ProcFrame

\* the process exits
Exit(pid) ==
    /\ process_table[pid] # None
    /\ process_table' = [process_table EXCEPT ![pid] = None]
    /\ procPoll' = NoProcPoll
    /\ UNCHANGED <<active_processes, seen_pids, procRunning, procOpen>>
    /\ ProcFrame

\* the load of the process changes
Load(pid, process) ==
    /\ process_table[pid] # None
    /\ process_table[pid][1] # process
    /\ process_table[pid][1].name = process.name
    /\ process_table' = [process_table EXCEPT ![pid] = <<process>>]
    /\ procPoll' = NoProcPoll
    /\ UNCHANGED <<active_processes, seen_pids, procRunning, procOpen>>
    /\ ProcFrame

\* run() up to collect(): _running = True, then start()
ProcStart ==
    /\ ~procRunning
    /\ procRunning' = TRUE
    /\ procPoll' = NoProcPoll
    /\ UNCHANGED <<process_table, active_processes, seen_pids, procOpen>>
    /\ ProcFrame

\* run() after collect(): stop(), _running = False; the events of a later
\* run are a sequence of their own
ProcStop ==
    /\ procRunning
    /\ procRunning' = FALSE
    /\ active_processes' = [pid \in Pids |-> None]
    /\ seen_pids' = {}
    /\ procOpen' = {}
    /\ procPoll' = NoProcPoll
    /\ UNCHANGED process_table
    /\ ProcFrame

\* the pids the events of this type are about
PidsOf(events, event_type) ==
    {events[i].process_id : i \in {j \in DOMAIN events : events[j].event_type = event_type}}

\* collect(): one pass of "while self._running"
ProcCollect ==
    /\ procRunning
    /\ LET scanned == ProcessIter(process_table, 1)
           info == [pid \in Pids |->
                      IF process_table[pid] = None THEN None
                      ELSE <<GetProcessInfo(pid, process_table[pid][1])>>]
           current_pids == {pid \in Pids : info[pid] # None /\ ShouldTrack(info[pid][1])}
           scan_events == Flatten([i \in DOMAIN scanned |->
                                     ScanEvents(seen_pids, info[scanned[i]][1])])
           stored == [pid \in Pids |->
                        IF pid \in current_pids
                           /\ (pid \notin seen_pids
                               \/ info[pid][1].cpu_percent > ACTIVE_PERCENT)
                        THEN info[pid] ELSE active_processes[pid]]
           ended_pids == EndedPids(seen_pids \cup current_pids, current_pids)
       IN  \E ended \in Orders(SetToSeq({pid \in ended_pids : stored[pid] # None})) :
              /\ procPoll' =
                    [done |-> TRUE,
                     scanned |-> {scanned[i] : i \in DOMAIN scanned},
                     current_pids |-> current_pids,
                     events |-> scan_events
                                \o [i \in DOMAIN ended |->
                                      CreateProcessEvent("process.end", stored[ended[i]][1])]]
              /\ active_processes' =
                    [pid \in Pids |-> IF pid \in ended_pids THEN None ELSE stored[pid]]
              /\ seen_pids' = (seen_pids \cup current_pids) \ ended_pids
              /\ procOpen' = (procOpen \cup PidsOf(procPoll'.events, "process.start"))
                                \ PidsOf(procPoll'.events, "process.end")
    /\ UNCHANGED <<process_table, procRunning>>
    /\ ProcFrame

ProcNext ==
    \/ \E pid \in Pids, process \in Process : Spawn(pid, process)
    \/ \E pid \in Pids : Exit(pid)
    \/ \E pid \in Pids, process \in Process : Load(pid, process)
    \/ ProcStart
    \/ ProcStop
    \/ ProcCollect

\* how many events of this type the pass yielded about the pid
Yielded(poll, pid, event_type) ==
    Cardinality({i \in DOMAIN poll.events :
                    /\ poll.events[i].process_id = pid
                    /\ poll.events[i].event_type = event_type})

\* C30: in every pass of collect() and for every pid: process.start is
\* yielded (once) exactly when the pass observes the pid as trackable and the
\* pid has no process.start without a process.end after it; process.active
\* is yielded only for a pid that has a process.start without a later
\* process.end; process.end is yielded (once) exactly when the pid has a
\* process.start without a later process.end and is absent from the scan of
\* the process table.
C30_Lifecycle ==
    [][procPoll'.done =>
        \A pid \in Pids :
           LET trackable == pid \in procPoll'.current_pids
               absent == pid \notin procPoll'.scanned
               open == pid \in procOpen
           IN  /\ Yielded(procPoll', pid, "process.start")
                     = IF trackable /\ ~open THEN 1 ELSE 0
               /\ Yielded(procPoll', pid, "process.active") > 0 => open
               /\ Yielded(procPoll', pid, "process.end")
                     = IF open /\ absent THEN 1 ELSE 0
    ]_vars

\* C36. No false process end: a pass of collect() yields process.end only for
\* a pid that the enumeration of the process table does not hold; a process
\* that is still running gets no process.end, trackable or not.
C36_NoFalseEnd ==
    procPoll.done
    => /\ PidsOf(procPoll.events, "process.end") \cap procPoll.scanned = {}
       /\ \A pid \in PidsOf(procPoll.events, "process.end") : process_table[pid] = None


(***************************************************************************)
(* CONFIGURATION  (config.py) and the poll intervals of the collectors     *)
(***************************************************************************)
PollerKinds == {"process", "terminal", "browser"}

\* the Config field and the environment variable of a collector's interval
IntervalField ==
    [process |-> "process_poll_interval", terminal |-> "shell_history_poll_interval",
     browser |-> "browser_poll_interval"]
IntervalFields == {IntervalField[kind] : kind \in PollerKinds}

\* Field(default=..., ge=...) of the three intervals, in seconds
PROCESS_DEFAULT == 30
PROCESS_MINIMUM == 5
SHELL_DEFAULT == 60
SHELL_MINIMUM == 10
BROWSER_DEFAULT == 300
BROWSER_MINIMUM == 60
Defaults ==
    [process_poll_interval |-> PROCESS_DEFAULT,
     shell_history_poll_interval |-> SHELL_DEFAULT,
     browser_poll_interval |-> BROWSER_DEFAULT]
Minimums ==
    [process_poll_interval |-> PROCESS_MINIMUM,
     shell_history_poll_interval |-> SHELL_MINIMUM,
     browser_poll_interval |-> BROWSER_MINIMUM]

\* the texts an environment variable is set to: a number below the minimum,
\* the minimum, and a text that is no number
EnvTexts(field) ==
    {<<"digits", Minimums[field] - 1>>, <<"digits", Minimums[field]>>, <<"letters", 0>>}

\* int(interval): the number, None for the ValueError
ParseInt(text) == IF text[1] = "digits" THEN <<text[2]>> ELSE None

\* the keyword arguments Config(...) is given: field -> None (left out) or <<value>>
Kwargs(field) == {None, <<Minimums[field] - 1>>, <<Minimums[field]>>}

\* Config(**kwargs) were the fields not validated
ConfigUnchecked(kwargs) ==
    <<[field \in IntervalFields |->
          IF kwargs[field] = None THEN Defaults[field] ELSE kwargs[field][1]]>>

\* Config(**kwargs): the defaults and the ge= validation of the fields; None
\* for the ValidationError
NewConfig(kwargs) ==
    IF \E field \in IntervalFields :
          kwargs[field] # None /\ kwargs[field][1] < Minimums[field]
    THEN None
    ELSE <<[field \in IntervalFields |->
              IF kwargs[field] = None THEN Defaults[field] ELSE kwargs[field][1]]>>

\* Config.from_env: None when int() or Config() raises
FromEnv(env) ==
    IF \E field \in IntervalFields : env[field] # None /\ ParseInt(env[field][1]) = None
    THEN None
    ELSE NewConfig([field \in IntervalFields |->
                      IF env[field] = None THEN None ELSE ParseInt(env[field][1])])

\* get_config(): the global instance after the call, None when from_env raised
GetConfigOf(current, env) == IF current = None THEN FromEnv(env) ELSE current

\* the poll_interval arguments a collector is constructed with
PollArguments == {None, <<0>>, <<1>>, <<BROWSER_DEFAULT>>}

\* self.poll_interval = poll_interval or config.<field>
PollInterval(poll_interval, conf, field) ==
    IF poll_interval = None \/ poll_interval[1] = 0 THEN conf[field] ELSE poll_interval[1]

ConfFrame ==
    UNCHANGED <<termVars, browserVars, storeVars, infVars, graphVars, collVars,
                daemonVars, gitVars, procVars, histVars, backlogVars, restartVars>>

ConfInit ==
    /\ environ = [field \in IntervalFields |-> None]
    /\ config = None
    /\ poller = None
    /\ confOp = "none"

\* the environment the program is started in: one variable is set
SetEnv(field, text) ==
    /\ config = None /\ poller = None
    /\ environ[field] = None
    /\ environ' = [environ EXCEPT ![field] = <<text>>]
    /\ confOp' = "setenv"
    /\ UNCHANGED <<config, poller>>
    /\ ConfFrame

\* set_config(Config(**kwargs))
SetConfig(kwargs) ==
    /\ LET made == NewConfig(kwargs)
       IN  /\ config' = IF made = None THEN config ELSE made
           /\ confOp' = IF made = None THEN "raised" ELSE "set_config"
    /\ UNCHANGED <<environ, poller>>
    /\ ConfFrame

\* ProcessCollector(poll_interval), TerminalCollector(poll_interval),
\* BrowserCollector(poll_interval)
Construct(kind, poll_interval) ==
    /\ LET conf == GetConfigOf(config, environ)
       IN  /\ config' = conf
           /\ IF conf = None
              THEN /\ confOp' = "raised"
                   /\ UNCHANGED poller
              ELSE /\ confOp' = "constructed"
                   /\ poller' = <<[kind |-> kind, argument |-> poll_interval,
                                   poll_interval |->
                                      PollInterval(poll_interval, conf[1],
                                                   IntervalField[kind])]>>
    /\ UNCHANGED environ
    /\ ConfFrame

ConfNext ==
    \/ \E field \in IntervalFields : \E text \in EnvTexts(field) : SetEnv(field, text)
    \/ \E kwargs \in {k \in [IntervalFields -> UNION {Kwargs(f) : f \in IntervalFields}] :
                         \A f \in IntervalFields : k[f] \in Kwargs(f)} : SetConfig(kwargs)
    \/ \E kind \in PollerKinds, poll_interval \in PollArguments :
          Construct(kind, poll_interval)

\* C31 as claimed: no process, terminal or browser collector has a poll
\* interval below 5 s, 10 s and 60 s, wherever the interval comes from: the
\* configuration, the environment or the constructor argument.
C31_PollMinimums ==
    poller # None
    => poller[1].poll_interval >= Minimums[IntervalField[poller[1].kind]]

\* C31 amended: the global configuration never holds an interval below its
\* minimum, and a collector constructed without a poll_interval argument (or
\* with 0) has a poll interval of at least 5 s, 10 s and 60 s, whether the
\* configuration was made from keyword arguments or from the environment.
C31_ConfiguredMinimums ==
    /\ config # None
       => \A field \in IntervalFields : config[1][field] >= Minimums[field]
    /\ (poller # None /\ poller[1].argument \in {None, <<0>>})
       => poller[1].poll_interval >= Minimums[IntervalField[poller[1].kind]]

\* C31 witness: a browser collector constructed without an argument polls at
\* the minimum that the environment gave.
C31_Witness ==
    /\ poller # None
    /\ poller[1].kind = "browser"
    /\ poller[1].argument = None
    /\ environ["browser_poll_interval"] = <<<<"digits", BROWSER_MINIMUM>>>>
    /\ poller[1].poll_interval = BROWSER_MINIMUM


(***************************************************************************)
(* ACTIVITY GRAPH: THE EVENTS ADDED  (analysis/graph.py)                    *)
(*                                                                         *)
(* add_event calls on a graph built from the empty graph, with the events  *)
(* kept in call order; their timestamps come in any order.                 *)
(***************************************************************************)
MaxAdded == 3        \* add_event calls in a behaviour

\* the events added: a file, a page, a command line, a commit in a
\* repository, the start and the end of a process, each at either timestamp
AddedEvents ==
    {e \in GraphEvent :
        \/ e.event_type \in {"file.modify", "browser.visit", "process.start", "process.end"}
        \/ (e.event_type = "shell.command" /\ e.subject # <<>>)
        \/ (e.event_type = "git.commit" /\ e.repository # None)}

HistFrame ==
    UNCHANGED <<termVars, browserVars, storeVars, infVars, collVars, daemonVars, gitVars,
                procVars, confVars, backlogVars, restartVars, graph_file, graphCalls,
                graphOp, savedGraph, graphPairs>>

HistInit == graphAdded = <<>>

\* graph.add_event(event)
AddEventLogged(event) ==
    /\ HistFrame
    /\ Len(graphAdded) < MaxAdded
    /\ graph' = AddEventTo(graph, event)
    /\ graphAdded' = Append(graphAdded, event)

HistNext == \E event \in AddedEvents : AddEventLogged(event)

\* the nodes section 4.2 synthesizes from an event
NodesOf(event) == MappedNodes(event, NODE_TYPES.command, NODE_TYPES.process)

\* the added events that mapped to a node
MappedTo(n) == {i \in 1..Len(graphAdded) : n \in NodesOf(graphAdded[i])}

\* the called add_event and its event
Added == graphAdded'[Len(graphAdded')]

\* C33. Node update rule: add_event inserts every node synthesized from the
\* event, the domain node of a page too, with event_count 1 and last_seen the
\* event's timestamp when the node is new, and otherwise raises event_count by
\* one and sets last_seen to the event's timestamp; the event_count of a node
\* is the number of added events that mapped to it.
C33_NodeUpdate ==
    /\ [](\A n \in DOMAIN graph.nodes :
             graph.nodes[n].event_count = Cardinality(MappedTo(n)))
    /\ [][graphAdded' # graphAdded
          => \A n \in NodesOf(Added) :
                /\ n \in DOMAIN graph'.nodes
                /\ graph'.nodes[n].event_count
                     = IF n \in DOMAIN graph.nodes
                       THEN graph.nodes[n].event_count + 1 ELSE 1
                /\ Get(graph'.nodes[n], "last_seen", None)
                     = IsoFormat(Added.timestamp)]_vars

\* the greatest timestamp among the events that mapped to a node
Latest(n) ==
    CHOOSE t \in {graphAdded[i].timestamp : i \in MappedTo(n)} :
        \A i \in MappedTo(n) : graphAdded[i].timestamp <= t

\* C34. last_seen is the latest observation: in whatever timestamp order the
\* events are added, the last_seen of a node is the greatest timestamp among
\* the events that mapped to it.
C34_LatestObservation ==
    \A n \in DOMAIN graph.nodes :
        Get(graph.nodes[n], "last_seen", None) = IsoFormat(Latest(n))


(***************************************************************************)
(* BROWSER COLLECTOR UNDER A BACKLOG  (collectors/browser.py)              *)
(*                                                                         *)
(* The browsers record visits in bursts, one row per tick of the clock,    *)
(* while the task of the collector polls and sleeps in turn.  A row keeps  *)
(* the number of its burst.                                                *)
(***************************************************************************)
MaxBursts == 2       \* bursts of visits in a behaviour

\* the bursts tried: one row, one ignored row, as many rows as a query
\* returns, and one row more than that
BacklogBursts ==
    {[browser |-> "chrome", n |-> 1, url |-> <<"https://", "docs.python.org/3">>],
     [browser |-> "chrome", n |-> 1, url |-> <<"chrome://", "settings">>],
     [browser |-> "chrome", n |-> QUERY_LIMIT, url |-> <<"https://", "docs.python.org/3">>],
     [browser |-> "chrome", n |-> QUERY_LIMIT + 1,
      url |-> <<"https://", "docs.python.org/3">>],
     [browser |-> "firefox", n |-> 1, url |-> <<"https://", "docs.python.org/3">>],
     [browser |-> "firefox", n |-> QUERY_LIMIT + 1,
      url |-> <<"https://", "docs.python.org/3">>]}

BurstsMade == Cardinality({r.burst : r \in places})

BacklogFrame ==
    UNCHANGED <<termVars, storeVars, infVars, graphVars, collVars, daemonVars, gitVars,
                procVars, confVars, histVars, restartVars, visitEvents, returnedKeys,
                laterPolls>>

BacklogInit ==
    /\ visitsEmitted = {}
    /\ pollPhase = "none"
    /\ seeded = [b \in Browsers |-> None]

\* a browser records burst.n visits, one per tick
Burst(burst) ==
    /\ BacklogFrame
    /\ BurstsMade < MaxBursts
    /\ places' = places \cup
          {[browser |-> burst.browser, visit_time |-> Native(burst.browser, wall + j),
            url |-> burst.url, burst |-> BurstsMade + 1] : j \in 1..burst.n}
    /\ wall' = wall + burst.n
    /\ UNCHANGED <<last_visit, seen_visits, browserRunning, backlogVars>>

\* BaseCollector.run up to start(): both cursors are seeded with now, and the
\* task enters collect()
BacklogStart ==
    /\ BacklogFrame
    /\ ~browserRunning
    /\ browserRunning' = TRUE
    /\ last_visit' = [b \in Browsers |-> <<Native(b, wall)>>]
    /\ seeded' = last_visit'
    /\ pollPhase' = "ready"
    /\ UNCHANGED <<places, seen_visits, wall, visitsEmitted>>

\* collect(): the Firefox loop after the Chrome loop has given c, and what
\* the two loops leave
FirefoxAfter(c, db, cursors, now) ==
    [chrome |-> c,
     firefox |-> CollectVisits(ReadBrowserHistory("firefox", db, cursors["firefox"], now),
                               c.seen, cursors["firefox"])]

\* collect(): the Chrome loop, then the Firefox loop
CollectBoth(db, seen, cursors, now) ==
    FirefoxAfter(CollectVisits(ReadBrowserHistory("chrome", db, cursors["chrome"], now),
                               seen, cursors["chrome"]),
                 db, cursors, now)

\* the state a turn of the while loop leaves, r the outcome of its two loops
AfterLoops(r) ==
    /\ last_visit' = [b \in Browsers |-> r[b].cursor]
    /\ seen_visits' = EvictVisits(r["firefox"].seen)
    /\ visitsEmitted' = visitsEmitted \cup
          {VisitKey(b, r[b].emitted[i].visit_time) :
             <<b, i>> \in UNION {{b} \X (1..Len(r[b].emitted)) : b \in Browsers}}

\* one turn of the while loop of collect() up to its sleep
BacklogCollect ==
    /\ BacklogFrame
    /\ browserRunning /\ pollPhase = "ready"
    /\ AfterLoops(CollectBoth(places, seen_visits, last_visit, wall))
    /\ pollPhase' = "sleep"
    /\ UNCHANGED <<places, browserRunning, wall, seeded>>

\* await asyncio.sleep(self.poll_interval) returns
BacklogWake ==
    /\ BacklogFrame
    /\ pollPhase = "sleep"
    /\ pollPhase' = "ready"
    /\ UNCHANGED <<places, last_visit, seen_visits, browserRunning, wall, visitsEmitted,
                   seeded>>

\* a step of the task of the collector: BacklogStart, BacklogCollect and
\* BacklogWake are the steps that move it, and one of them is always possible
TaskStep == \E phase \in {"ready", "sleep"} : pollPhase' = phase /\ phase # pollPhase

BacklogNext ==
    \/ \E burst \in BacklogBursts : Burst(burst)
    \/ BacklogStart
    \/ BacklogCollect
    \/ BacklogWake

\* the rows of a burst that the claim is about: not ignored and later than the
\* cursor start() seeded
DueRows(i) ==
    {r \in places : /\ r.burst = i /\ ~ShouldIgnoreUrl(r.url)
                    /\ seeded[r.browser] # None
                    /\ r.visit_time > seeded[r.browser][1]}

\* C37. Browser completeness: while the collector keeps polling, every row
\* with a URL that is not ignored and a native timestamp later than the
\* cursor seeded at start is eventually emitted as a browser.visit event,
\* also when more rows than a query returns accumulate between two polls.
C37_BrowserCompleteness ==
    \A i \in 1..MaxBursts :
        (DueRows(i) # {})
          ~> (\A r \in DueRows(i) : VisitKey(r.browser, r.visit_time) \in visitsEmitted)


(***************************************************************************)
(* DAEMON STARTED AGAIN  (daemon.py)                                       *)
(*                                                                         *)
(* start(), run() and stop() called one after the other on one Daemon, as  *)
(* the restart test does; what is kept of the daemon is its collector list *)
(* and which of its collectors have a task.                                *)
(***************************************************************************)
MaxStarts == 2       \* calls of Daemon.start() in a behaviour

\* the collectors in the order _init_collectors constructs them
CollectorKinds == <<"filesystem", "git", "process", "terminal", "browser">>

\* the constructors that raise in a call of _init_collectors: none or one
ConstructionFailures == {{}} \cup {{CollectorKinds[i]} : i \in DOMAIN CollectorKinds}

\* _init_collectors: every collector whose constructor did not raise is
\* appended to self.collectors
InitCollectors(list, failed) ==
    list \o SelectSeq(CollectorKinds, LAMBDA kind : kind \notin failed)

RestartFrame ==
    UNCHANGED <<termVars, browserVars, storeVars, infVars, graphVars, collVars,
                daemonVars, gitVars, procVars, confVars, histVars, backlogVars>>

\* Daemon.__init__
RestartInit ==
    /\ collector_list = <<>>
    /\ restartRunning = FALSE
    /\ restartTasks = {}
    /\ restartStarts = 0
    /\ restartObserved = None

\* await daemon.start()
RestartStart(failed) ==
    /\ RestartFrame
    /\ restartStarts < MaxStarts
    /\ restartTasks = {}
    /\ collector_list' = InitCollectors(collector_list, failed)
    /\ restartRunning' = TRUE
    /\ restartStarts' = restartStarts + 1
    /\ restartObserved' = None
    /\ UNCHANGED restartTasks

\* daemon.run() up to gather: start(), then start_task() of every collector
\* of the list
RestartRun(failed) ==
    /\ RestartFrame
    /\ restartStarts < MaxStarts
    /\ restartTasks = {}
    /\ collector_list' = InitCollectors(collector_list, failed)
    /\ restartRunning' = TRUE
    /\ restartStarts' = restartStarts + 1
    /\ restartTasks' = DOMAIN collector_list'
    /\ restartObserved' = None

\* await daemon.stop(), called direct or by the finally of run(): stop_task of
\* every collector of the list; the list stays as it is
RestartStop ==
    /\ RestartFrame
    /\ restartRunning
    /\ restartRunning' = FALSE
    /\ restartTasks' = {}
    /\ restartObserved' = None
    /\ UNCHANGED <<collector_list, restartStarts>>

\* a source changes once (a file is modified, a command typed, ...): every
\* collector of this kind that has a task observes it and emits its event
Observe(kind) ==
    /\ RestartFrame
    /\ restartTasks # {}
    /\ restartObserved' =
          <<[kind |-> kind,
             events |-> Cardinality({i \in restartTasks : collector_list[i] = kind})]>>
    /\ UNCHANGED <<collector_list, restartRunning, restartTasks, restartStarts>>

RestartNext ==
    \/ \E failed \in ConstructionFailures : RestartStart(failed)
    \/ \E failed \in ConstructionFailures : RestartRun(failed)
    \/ RestartStop
    \/ \E i \in DOMAIN CollectorKinds : Observe(CollectorKinds[i])

\* C40. Restart keeps one collector per source: after any sequence of
\* start(), run() and stop() calls on one daemon its collector list holds at
\* most one collector of each kind, and one observation of a source is
\* emitted at most once.
C40_OneCollectorPerSource ==
    /\ \A i, j \in DOMAIN collector_list :
          collector_list[i] = collector_list[j] => i = j
    /\ restartObserved # None => restartObserved[1].events <= 1


(***************************************************************************)
(* Specifications                                                         *)
(***************************************************************************)
TermIdle == TermInit /\ shell = "bash"

Rest == CollInit /\ DaemonInit /\ GitInit /\ ProcInit /\ ConfInit /\ HistInit /\ BacklogInit
           /\ RestartInit
Idle == TermIdle /\ BrowserInit /\ StoreInit /\ InfIdle /\ GraphInit /\ Rest
InitTerminal == TermInit /\ BrowserInit /\ StoreInit /\ InfIdle /\ GraphInit /\ Rest
InitInference == InfInit /\ TermIdle /\ BrowserInit /\ StoreInit /\ GraphInit /\ Rest
SpecTerminal == InitTerminal /\ [][TermNext]_vars
SpecBrowser == Idle /\ [][BrowserNext]_vars
\* the browser collector under a backlog, its task scheduled again and again:
\* run() reaches collect(), whose loop polls, sleeps and wakes up
FairSpecBacklog == Idle /\ [][BacklogNext]_vars /\ WF_pollPhase(TaskStep)
SpecGit == Idle /\ [][GitNext]_vars
SpecConfig == Idle /\ [][ConfNext]_vars
SpecProcess == Idle /\ [][ProcNext]_vars
SpecStoreColumns == Idle /\ [][StoreColumnsNext]_vars
SpecStore == Idle /\ [][StoreNext]_vars
SpecInference == InitInference /\ [][InfNext]_vars
SpecGraphCalls == Idle /\ [][GraphCallsNext]_vars
SpecGraph == Idle /\ [][GraphNext]_vars
SpecGraphEvents == Idle /\ [][HistNext]_vars
SpecCollector == Idle /\ [][CollectorNext]_vars
SpecDaemon == Idle /\ [][DaemonNext]_vars
SpecRestart == Idle /\ [][RestartNext]_vars

\* the daemon while the sources of the collectors produce their first item only
LiveNext ==
    \/ \E failure \in StartFailures : DaemonStart("run", failure)
    \/ StopCalled
    \/ RunFinally
    \/ \E i \in StopIds : StopResume(i)
    \/ \E t \in Periodic : PeriodicWake(t)
    \/ \E c \in Collectors : Begin(c)
    \/ \E c \in Collectors : Wake(c)
    \/ \E c \in Collectors : col_made[c] = 0 /\ Produce(c)

\* the event loop runs every task that is ready and every sleep ends
FairSpecDaemon ==
    /\ Idle /\ [][LiveNext]_vars
    /\ \A c \in Collectors : WF_vars(Begin(c)) /\ WF_vars(Wake(c))
    /\ \A i \in StopIds : WF_vars(StopResume(i))
    /\ \A t \in Periodic : WF_vars(PeriodicWake(t))
    /\ WF_vars(RunFinally)

=============================================================================
